---- MODULE Spec2Model ----
(***************************************************************************)
(* Task execution pipeline of Xgent: the in-memory event broadcaster       *)
(* (internal/api/handlers/event_broadcaster.go), the task queue and its    *)
(* workers (internal/orchestrator/queue.go), the executor's status writes  *)
(* (executor.AgnoExecutor.Execute) and the task handler's progress         *)
(* callback, cancel request and stream loop                                *)
(* (internal/api/handlers/task_handler.go).                                *)
(***************************************************************************)
EXTENDS Integers, Sequences, FiniteSets, Bags, TLC

(***************************************************************************)
(* Bounds of the model.                                                    *)
(***************************************************************************)
\* maxEventBuffer is 200 in event_broadcaster.go:10; the model scales it.
maxEventBuffer == 2
\* make(chan TaskEvent, 200) in event_broadcaster.go:78; scaled alike.
subChanCap == 2
\* make(chan *TaskItem, 100) in queue.go:36; scaled.
taskChanCap == 1
\* the configured orchestrator.queue_size (main.go:57), never read by New.
QueueSize == 1
\* Broadcasts per task where two tasks share the broadcaster.
MaxAged == 2

\* Channels where goroutines subscribe and unsubscribe at will.
MaxChans == 3

\* Unsubscribe calls per channel.
MaxCalls == 2

\* clients that send resource requests at the same time
NClients == 2
\* rows the resource table may hold
MaxResources == 3
NTasks == 2
NWorkers == 1
NHandlers == 1
\* Broadcast calls per task in the broadcaster specification.
MaxPublished == 4
\* subscriber channels ever made.
MaxSubs == 2
\* runner events one run may emit.
MaxRunEvents == 1

Tasks == 1..NTasks
Workers == 1..NWorkers
Handlers == (NWorkers + 1)..(NWorkers + NHandlers)
Clients == 1..NClients
Procs == Workers \cup Handlers

Terminal == {"completed", "failed", "cancelled"}
Statuses == {"pending", "running"} \cup Terminal

VARIABLES
  subscribers,  \* b.subscribers: task id -> list of channels
  buffers,      \* b.buffers: task id -> buffered events
  chans,        \* contents of every channel Subscribe made, by channel id
  recvd,        \* events the stream loop took from each channel, in order
  published,    \* per task, the events in the order of Broadcast's critical section
  subAt,        \* per channel, what Subscribe did: task, events published before, events replayed
  dropped,      \* per channel, the events a try-send skipped ("Channel full, skipping event")
  overlap,      \* per task, whether two Broadcast calls for it ever overlapped
  tasks,        \* q.tasks: the task channel
  active,       \* q.active: the registered task ids
  mu,           \* q.mu: 0 when free, else the goroutine holding it
  row,          \* the stored task rows
  mem,          \* the *models.Task the handler created and the worker runs
  sub,          \* position of each submission (TaskHandler.Create)
  enqRes,       \* what Enqueue returned for each task
  inflight,     \* per task, the tasks queued or being executed when Enqueue ran its select
  stop,         \* position of TaskQueue.Stop: "no", "cancelled", "closed", "returned"
  logs,         \* the stored TaskLog rows of each task, a bag (the table has no order but the ids)
  resources,    \* the stored resource rows
  calls,        \* per client, the resource request it has in flight
  res,          \* the resource last handed to Parser.Marshal
  text,         \* the text last handed to Parser.Parse
  parseOut,     \* what that call of Parse returned
  closed,       \* per channel, whether Unsubscribe has closed it
  conn,         \* per channel, the stream connection that made it
  now,          \* the wall clock, in minutes
  createdAt,    \* per task with a buffer, the buffer's createdAt
  swept,        \* the clock value of the sweeper's last tick
  pc,           \* position of each goroutine
  loc           \* locals of each goroutine

bvars == <<subscribers, buffers, chans, recvd, published, subAt, dropped, overlap,
           closed, conn, now, createdAt, swept>>
qvars == <<tasks, active, mu, row, mem, sub, enqRes, inflight, stop, logs, resources, calls,
           res, text, parseOut>>
vars == <<subscribers, buffers, chans, recvd, published, subAt, dropped, overlap,
          closed, conn, now, createdAt, swept,
          tasks, active, mu, row, mem, sub, enqRes, inflight, stop, logs, resources, calls,
          res, text, parseOut, pc, loc>>

(***************************************************************************)
(* Go maps: a function whose domain is the set of keys present.            *)
(***************************************************************************)
EmptyMap == [x \in {} |-> 0]

MapGet(m, k, zero) == IF k \in DOMAIN m THEN m[k] ELSE zero

MapPut(m, k, v) == [x \in (DOMAIN m) \cup {k} |-> IF x = k THEN v ELSE m[x]]

MapDel(m, k) == [x \in (DOMAIN m) \ {k} |-> m[x]]

\* A string the code builds by concatenation is the sequence of its pieces:
\* "" is <<>>, a + b is a \o b.
NoEvent == [task |-> 0, seq |-> 0, etype |-> "none", msg |-> <<>>, status |-> "none", progress |-> 0]

\* models.Task: the fields the pipeline writes. completed_at and duration
\* record whether Execute has assigned them.
NoRow ==
  [status |-> "none", progress |-> 0, result |-> <<>>, error |-> <<>>, event_logs |-> <<>>,
   completed_at |-> FALSE, duration |-> FALSE,
   workspace_id |-> 1, resource_type |-> "robot", resource_name |-> "bot"]

\* The row Tasks().Create stores for a submission.
NewRow == [NoRow EXCEPT !.status = "pending"]

\* AgnoConfig, the configuration handed to the runner: launched records
\* that runAgnoScript was entered with it.
NoConfig ==
  [launched |-> FALSE, type |-> "none", model |-> "", soul |-> "", leader |-> "",
   members |-> <<>>, tools |-> <<>>]

\* A stream connection inside Stream's loop: how it ended, the ticks it has
\* handled (modulo 2), whether it was sent the complete frame, and how often
\* Unsubscribe was called with its channel, the last time for task utask.
LiveConn ==
  [state |-> "live", exit |-> "none", polls |-> 0, complete |-> FALSE, unsub |-> 0, utask |-> 0]

InitLoc ==
  [ev |-> NoEvent, subs |-> <<>>, bret |-> "idle",
   cbtask |-> 0, cbprogress |-> 0, cbstatus |-> "none", cbmsg |-> <<>>, cbtype |-> "none",
   cbcopy |-> NoRow, cbret |-> "idle",
   item |-> 0, hcopy |-> NoRow, nev |-> 0, err |-> FALSE,
   fullContent |-> <<>>, lastError |-> <<>>, eventLogs |-> <<>>, stopped |-> FALSE,
   lines |-> <<>>, exit |-> 0 - 1, returned |-> FALSE, panicked |-> FALSE,
   config |-> NoConfig]

(***************************************************************************)
(* EventBroadcaster                                                        *)
(***************************************************************************)
\* Replay that keeps the last slot of the channel free.
RECURSIVE ReplayKeepsLastSlot(_, _)
ReplayKeepsLastSlot(ch, events) ==
  IF events = <<>> THEN ch
  ELSE IF Len(ch) + 1 < subChanCap
       THEN ReplayKeepsLastSlot(Append(ch, Head(events)), Tail(events))
       ELSE ch

\* Replay that walks the buffer from its newest event.
RECURSIVE ReplayNewestFirst(_, _)
ReplayNewestFirst(ch, events) ==
  IF events = <<>> THEN ch
  ELSE IF Len(ch) < subChanCap
       THEN ReplayNewestFirst(Append(ch, events[Len(events)]), SubSeq(events, 1, Len(events) - 1))
       ELSE ch

\* Subscribe's replay loop: a try-send per buffered event, stopping at the
\* first one the channel has no room for.
RECURSIVE Replay(_, _)
Replay(ch, events) ==
  IF events = <<>> THEN ch
  ELSE IF Len(ch) < subChanCap THEN Replay(Append(ch, Head(events)), Tail(events))
  ELSE ch

\* Subscribe, whole under b.mu: make the channel, append it to the task's
\* list, replay the buffer into it.
Subscribe(t) ==
  LET ch == Len(chans) + 1
      buf == MapGet(buffers, t, <<>>)
      content == IF t \in DOMAIN buffers /\ Len(buf) > 0 THEN Replay(<<>>, buf) ELSE <<>>
  IN /\ subscribers' = MapPut(subscribers, t, Append(MapGet(subscribers, t, <<>>), ch))
     /\ chans' = Append(chans, content)
     /\ recvd' = Append(recvd, <<>>)
     /\ subAt' = Append(subAt, [task |-> t, before |-> published[t], replay |-> content])
     /\ dropped' = Append(dropped, {})
     /\ closed' = Append(closed, FALSE)
     /\ UNCHANGED <<buffers, published, overlap, now, createdAt, swept>>

\* A buffer that rotates: at the cap the oldest event makes room.
BufferAppendRotate(buf, e) ==
  IF Len(buf) < maxEventBuffer THEN Append(buf, e) ELSE Append(Tail(buf), e)

\* A buffer without a cap.
BufferAppendUnbounded(buf, e) == Append(buf, e)

\* The buffer after Broadcast's append: the event is kept only below the cap.
BufferAppend(buf, e) == IF Len(buf) < maxEventBuffer THEN Append(buf, e) ELSE buf

\* Broadcast's critical section for goroutine p: buffer the event, snapshot
\* the subscriber list; ret is where p continues after its send loop.
BroadcastLocked(p, t, etype, msg, status, progress, ret) ==
  LET e == [task |-> t, seq |-> Len(published[t]) + 1, etype |-> etype, msg |-> msg,
            status |-> status, progress |-> progress]
      subs == MapGet(subscribers, t, <<>>)
  IN /\ buffers' = MapPut(buffers, t, BufferAppend(MapGet(buffers, t, <<>>), e))
     /\ published' = [published EXCEPT ![t] = Append(@, e)]
     /\ overlap' = [overlap EXCEPT ![t] =
                      @ \/ \E o \in Procs \ {p} : pc[o] = "bsend" /\ loc[o].ev.task = t]
     /\ pc' = [pc EXCEPT ![p] = IF subs = <<>> THEN ret ELSE "bsend"]
     /\ loc' = [loc EXCEPT ![p].ev = e, ![p].subs = subs, ![p].bret = ret]
     /\ createdAt' = IF t \in DOMAIN buffers THEN createdAt ELSE MapPut(createdAt, t, now)
     /\ UNCHANGED <<subscribers, chans, recvd, subAt, dropped, closed, conn, now, swept>>

\* A try-send that gives up one slot early.
TrySendOffByOne(ch, e) == IF Len(ch) < subChanCap - 1 THEN Append(ch, e) ELSE ch

\* A try-send that puts the event at the front of the channel.
TrySendFront(ch, e) == IF Len(ch) < subChanCap THEN <<e>> \o ch ELSE ch

\* The channel after a non-blocking try-send.
TrySend(ch, e) == IF Len(ch) < subChanCap THEN Append(ch, e) ELSE ch

\* A send loop that walks the live subscriber list instead of the snapshot
\* taken under the lock.
BroadcastSendLive(p) ==
  /\ pc[p] = "bsend"
  /\ LET e == loc[p].ev
         live == MapGet(subscribers, e.task, <<>>)
         to == {live[i] : i \in 1..Len(live)}
     IN /\ chans' = [c \in DOMAIN chans |-> IF c \in to THEN
                       (IF Len(chans[c]) < subChanCap THEN Append(chans[c], e) ELSE chans[c])
                     ELSE chans[c]]
        /\ dropped' = [c \in DOMAIN dropped |->
                         IF c \in to /\ chans'[c] = chans[c] THEN dropped[c] \cup {e.seq}
                         ELSE dropped[c]]
        /\ loc' = [loc EXCEPT ![p].subs = <<>>]
        /\ pc' = [pc EXCEPT ![p] = loc[p].bret]
  /\ UNCHANGED <<subscribers, buffers, recvd, published, subAt, overlap, closed, conn, now, createdAt, swept>>
  /\ UNCHANGED <<resources, calls, tasks, active, mu, row, mem, sub, enqRes, inflight, stop, logs, res, text, parseOut>>

\* Where a panic raised inside a callback takes goroutine p: a worker's stack
\* unwinds to processTask's deferred function; a panic raised while that
\* function reports an earlier one is not recovered and ends the process; a
\* request's stack unwinds through Cancel to the server's recovery handler.
PanicTarget(p) ==
  IF p \in Workers THEN (IF loc[p].panicked THEN "crashed" ELSE "defer") ELSE "idle"

\* One iteration of Broadcast's send loop, outside the lock. The channel
\* comes from the snapshot: a send on one that Unsubscribe has closed since
\* panics, and the unwinding releases q.mu when Cancel's defer holds it.
BroadcastSend(p) ==
  /\ pc[p] = "bsend"
  /\ LET c == Head(loc[p].subs)
         e == loc[p].ev
         rest == Tail(loc[p].subs)
     IN IF closed[c]
        THEN /\ pc' = IF PanicTarget(p) = "crashed" THEN [x \in Procs |-> "crashed"]
                       ELSE [pc EXCEPT ![p] = PanicTarget(p)]
             /\ loc' = [loc EXCEPT ![p] = IF p \in Workers THEN [@ EXCEPT !.subs = <<>>, !.panicked = TRUE]
                                           ELSE InitLoc]
             /\ mu' = IF mu = p THEN 0 ELSE mu
             /\ UNCHANGED <<chans, dropped>>
        ELSE /\ chans' = [chans EXCEPT ![c] = TrySend(@, e)]
             /\ dropped' = [dropped EXCEPT ![c] = IF chans'[c] = chans[c] THEN @ \cup {e.seq} ELSE @]
             /\ loc' = [loc EXCEPT ![p].subs = rest]
             /\ pc' = [pc EXCEPT ![p] = IF rest = <<>> THEN loc[p].bret ELSE "bsend"]
             /\ mu' = mu
  /\ UNCHANGED <<subscribers, buffers, recvd, published, subAt, overlap, closed, conn, now, createdAt, swept>>
  /\ UNCHANGED <<tasks, active, row, mem, sub, enqRes, inflight, stop, logs, resources, calls, res, text, parseOut>>

\* The stream loop's `case event := <-eventCh`: forward one event.
StreamRecv(c) ==
  /\ c \in 1..Len(chans)
  /\ conn[c].state = "live"
  /\ chans[c] # <<>>
  /\ recvd' = [recvd EXCEPT ![c] = Append(@, Head(chans[c]))]
  /\ chans' = [chans EXCEPT ![c] = Tail(@)]
  /\ UNCHANGED <<subscribers, buffers, published, subAt, dropped, overlap, closed, conn, now, createdAt, swept, pc, loc>>
  /\ UNCHANGED qvars

\* A stream connection subscribes to task t.
StreamSubscribe(t) ==
  /\ Len(chans) < MaxSubs
  /\ Subscribe(t)
  /\ conn' = Append(conn, LiveConn)
  /\ UNCHANGED <<pc, loc>>
  /\ UNCHANGED qvars

\* An Unsubscribe that closes the channel and leaves it in the list.
UnsubscribeKeepsChannel(t, c) ==
  /\ subscribers' = subscribers
  /\ closed' = [closed EXCEPT ![c] = TRUE]

\* Unsubscribe, whole under b.mu: the channel is taken out of the task's list
\* and closed, and a list left empty is deleted.
Unsubscribe(t, c) ==
  LET subs == MapGet(subscribers, t, <<>>)
      at == {i \in 1..Len(subs) : subs[i] = c}
      found == at # {}
      i == CHOOSE k \in at : \A j \in at : k <= j
      rest == IF found THEN SubSeq(subs, 1, i - 1) \o SubSeq(subs, i + 1, Len(subs)) ELSE subs
  IN /\ subscribers' = IF rest = <<>> THEN MapDel(subscribers, t) ELSE MapPut(subscribers, t, rest)
     /\ closed' = [closed EXCEPT ![c] = @ \/ found]

\* An Unsubscribe that closes the channel whether or not it is in the list.
UnsubscribeCallCloses(t, c) ==
  /\ c \in 1..Len(chans)
  /\ conn[c].unsub < MaxCalls
  /\ conn' = [conn EXCEPT ![c] = [@ EXCEPT !.unsub = @ + 1, !.utask = t]]
  /\ subscribers' = LET rest == SelectSeq(MapGet(subscribers, t, <<>>), LAMBDA x : x # c)
                    IN IF rest = <<>> THEN MapDel(subscribers, t) ELSE MapPut(subscribers, t, rest)
  /\ closed' = [closed EXCEPT ![c] = TRUE]
  /\ UNCHANGED <<buffers, chans, recvd, published, subAt, dropped, overlap, now,
                 createdAt, swept, pc, loc>>
  /\ UNCHANGED qvars

\* Some goroutine calls Unsubscribe(t, c) with any channel it holds.
UnsubscribeCall(t, c) ==
  /\ c \in 1..Len(chans)
  /\ conn[c].unsub < MaxCalls
  /\ Unsubscribe(t, c)
  /\ conn' = [conn EXCEPT ![c] = [@ EXCEPT !.unsub = @ + 1, !.utask = t]]
  /\ UNCHANGED <<buffers, chans, recvd, published, subAt, dropped, overlap, now,
                 createdAt, swept, pc, loc>>
  /\ UNCHANGED qvars

\* A goroutine makes a channel of its own, one Subscribe never returned.
MakeChannel ==
  /\ Len(chans) < MaxChans
  /\ \A c \in 1..Len(chans) : subAt[c].task # 0
  /\ chans' = Append(chans, <<>>)
  /\ recvd' = Append(recvd, <<>>)
  /\ subAt' = Append(subAt, [task |-> 0, before |-> <<>>, replay |-> <<>>])
  /\ dropped' = Append(dropped, {})
  /\ closed' = Append(closed, FALSE)
  /\ conn' = Append(conn, LiveConn)
  /\ UNCHANGED <<subscribers, buffers, published, overlap, now, createdAt, swept, pc, loc>>
  /\ UNCHANGED qvars

\* Some goroutine calls Subscribe(t).
SubscribeCall(t) ==
  /\ Len(chans) < MaxChans
  /\ Subscribe(t)
  /\ conn' = Append(conn, LiveConn)
  /\ UNCHANGED <<pc, loc>>
  /\ UNCHANGED qvars

\* A panic that was not recovered has ended the process.
Crashed == \E p \in Procs : pc[p] = "crashed"

\* Stream returns on path exit, after a tick when it sent the complete
\* frame: the deferred Unsubscribe runs.
StreamReturn(c, exit, complete) ==
  /\ Unsubscribe(subAt[c].task, c)
  /\ conn' = [conn EXCEPT ![c] = [@ EXCEPT !.state = "ended", !.exit = exit,
                                            !.complete = complete, !.unsub = @ + 1,
                                            !.utask = subAt[c].task,
                                            !.polls = IF complete THEN (@ + 1) % 2 ELSE @]]

\* case <-done: the client went away.
StreamDone(c) ==
  /\ c \in 1..Len(chans)
  /\ conn[c].state = "live"
  /\ ~Crashed
  /\ StreamReturn(c, "disconnect", FALSE)
  /\ UNCHANGED <<buffers, chans, recvd, published, subAt, dropped, overlap, now, createdAt, swept,
                 pc, loc>>
  /\ UNCHANGED qvars

\* case event := <-eventCh, and conn.WriteJSON(msg) fails.
StreamWriteError(c) ==
  /\ c \in 1..Len(chans)
  /\ conn[c].state = "live"
  /\ ~Crashed
  /\ chans[c] # <<>>
  /\ chans' = [chans EXCEPT ![c] = Tail(@)]
  /\ StreamReturn(c, "write", FALSE)
  /\ UNCHANGED <<buffers, recvd, published, subAt, dropped, overlap, now, createdAt, swept, pc, loc>>
  /\ UNCHANGED qvars

\* case <-statusTicker.C: the row is read and a status frame sent; on a
\* terminal status the complete frame follows and Stream returns.
StreamTick(c) ==
  /\ c \in 1..Len(chans)
  /\ conn[c].state = "live"
  /\ ~Crashed
  /\ subAt[c].task \in DOMAIN row
  /\ IF row[subAt[c].task].status \in Terminal
     THEN StreamReturn(c, "terminal", TRUE)
     ELSE /\ conn' = [conn EXCEPT ![c].polls = (@ + 1) % 2]
          /\ UNCHANGED <<subscribers, closed>>
  /\ UNCHANGED <<buffers, chans, recvd, published, subAt, dropped, overlap, now, createdAt, swept,
                 pc, loc>>
  /\ UNCHANGED qvars

\* bufferTTL, in minutes.
bufferTTL == 10

\* The period of cleanupLoop's ticker, in minutes.
cleanupInterval == 5

\* The last clock value the model reaches.
MaxTime == 20


\* The sweeper's ticker has fired at the current minute and the sweep for it
\* has not run yet.
SweepDue == now > 0 /\ now % cleanupInterval = 0 /\ swept # now

\* A minute passes. The ticker fires on the minute, so the clock waits for a
\* due sweep.
Tick ==
  /\ now < MaxTime
  /\ ~SweepDue
  /\ now' = now + 1
  /\ UNCHANGED <<subscribers, buffers, chans, recvd, published, subAt, dropped, overlap,
                 closed, conn, createdAt, swept, pc, loc>>
  /\ UNCHANGED qvars

\* A sweep that also deletes a buffer whose age equals bufferTTL.
SweepAtTTL ==
  /\ SweepDue
  /\ LET keep == {t \in DOMAIN buffers : ~(now - createdAt[t] >= bufferTTL)}
     IN /\ buffers' = [t \in keep |-> buffers[t]]
        /\ createdAt' = [t \in keep |-> createdAt[t]]
  /\ swept' = now
  /\ UNCHANGED <<subscribers, chans, recvd, published, subAt, dropped, overlap,
                 closed, conn, now, pc, loc>>
  /\ UNCHANGED qvars

\* One iteration of cleanupLoop, whole under b.mu: delete every buffer whose
\* age exceeds bufferTTL.
Sweep ==
  /\ SweepDue
  /\ LET keep == {t \in DOMAIN buffers : ~(now - createdAt[t] > bufferTTL)}
     IN /\ buffers' = [t \in keep |-> buffers[t]]
        /\ createdAt' = [t \in keep |-> createdAt[t]]
  /\ swept' = now
  /\ UNCHANGED <<subscribers, chans, recvd, published, subAt, dropped, overlap,
                 closed, conn, now, pc, loc>>
  /\ UNCHANGED qvars

\* The goroutines that broadcast for one task: the worker that owns it, through
\* the progress callback, and the one request whose Cancel finds it active.
Publishers == {1, NWorkers + 1}

\* Goroutine p calls Broadcast for task t: a worker any number of times, a
\* cancel request once, since Cancel deletes the entry it found.
BroadcastCall(p, t) ==
  /\ pc[p] = "idle"
  /\ Len(published[t]) < MaxPublished
  /\ p \in Handlers => \A i \in 1..Len(published[t]) : published[t][i].status # "cancelled"
  /\ BroadcastLocked(p, t, "info", <<>>, IF p \in Workers THEN "running" ELSE "cancelled", 0, "idle")
  /\ UNCHANGED qvars

(***************************************************************************)
(* The progress callback TaskHandler.Create hands to the orchestrator.     *)
(***************************************************************************)
\* The caller's step ends by entering the callback: its arguments and the
\* place the caller resumes at.
CallbackCall(p, t, progress, status, msg, etype, ret) ==
  [loc[p] EXCEPT !.cbtask = t, !.cbprogress = progress, !.cbstatus = status,
                 !.cbmsg = msg, !.cbtype = etype, !.cbret = ret]

\* GetBroadcaster().Broadcast(TaskEvent{...}): the critical section.
CallbackBroadcast(p) ==
  /\ pc[p] = "cb_bcast"
  /\ BroadcastLocked(p, loc[p].cbtask, loc[p].cbtype, loc[p].cbmsg, loc[p].cbstatus,
                     loc[p].cbprogress, "cb_read")
  /\ UNCHANGED qvars

\* t, err := Tasks().GetByID(taskID)
CallbackGetByID(p) ==
  /\ pc[p] = "cb_read"
  /\ IF loc[p].cbtask \in DOMAIN row
     THEN /\ loc' = [loc EXCEPT ![p].cbcopy = row[loc[p].cbtask]]
          /\ pc' = [pc EXCEPT ![p] = "cb_write"]
     ELSE /\ pc' = [pc EXCEPT ![p] = loc[p].cbret]
          /\ loc' = loc
  /\ UNCHANGED bvars
  /\ UNCHANGED qvars

\* A callback that saves the row and stores no log row.
CallbackUpdateNoLog(p) ==
  /\ pc[p] = "cb_write"
  /\ row' = [row EXCEPT ![loc[p].cbtask] =
               [loc[p].cbcopy EXCEPT !.progress = loc[p].cbprogress, !.status = loc[p].cbstatus]]
  /\ pc' = [pc EXCEPT ![p] = loc[p].cbret]
  /\ loc' = [loc EXCEPT ![p].cbcopy = NoRow]
  /\ UNCHANGED bvars
  /\ UNCHANGED <<resources, calls, tasks, active, mu, mem, sub, enqRes, inflight, stop, logs, res, text, parseOut>>

\* t.Progress = progress; t.Status = status; Tasks().Update(t): the copy read
\* by GetByID is saved whole. Then Tasks().AddLog(&TaskLog{...}) stores the
\* log row with the event type and the message.
CallbackUpdate(p) ==
  /\ pc[p] = "cb_write"
  /\ row' = [row EXCEPT ![loc[p].cbtask] =
               [loc[p].cbcopy EXCEPT !.progress = loc[p].cbprogress, !.status = loc[p].cbstatus]]
  /\ logs' = [logs EXCEPT ![loc[p].cbtask] =
                @ (+) SetToBag({[event_type |-> loc[p].cbtype, content |-> loc[p].cbmsg]})]
  /\ pc' = [pc EXCEPT ![p] = loc[p].cbret]
  /\ loc' = [loc EXCEPT ![p].cbcopy = NoRow]
  /\ UNCHANGED bvars
  /\ UNCHANGED <<resources, calls, tasks, active, mu, mem, sub, enqRes, inflight, stop, res, text, parseOut>>

(***************************************************************************)
(* TaskHandler.Create and TaskQueue.Enqueue                                *)
(***************************************************************************)
\* Tasks().Create(task) for a request naming a resource: the row starts
\* pending; ids are handed out in order.
CreateRequest(t, rtype, rname) ==
  /\ sub[t] = "new"
  /\ \A u \in 1..(t - 1) : sub[u] # "new"
  /\ mem' = MapPut(mem, t, [NewRow EXCEPT !.resource_type = rtype, !.resource_name = rname])
  /\ row' = MapPut(row, t, mem'[t])
  /\ sub' = [sub EXCEPT ![t] = "submit"]
  /\ UNCHANGED bvars
  /\ UNCHANGED <<resources, calls, tasks, active, mu, enqRes, inflight, stop, logs, pc, loc, res, text, parseOut>>

\* Tasks().Create(task): the row starts pending; ids are handed out in order.
CreateTask(t) ==
  /\ sub[t] = "new"
  /\ \A u \in 1..(t - 1) : sub[u] # "new"
  /\ mem' = MapPut(mem, t, NewRow)
  /\ row' = MapPut(row, t, NewRow)
  /\ sub' = [sub EXCEPT ![t] = "submit"]
  /\ UNCHANGED bvars
  /\ UNCHANGED <<resources, calls, tasks, active, mu, enqRes, inflight, stop, logs, pc, loc, res, text, parseOut>>

\* The tasks a worker has received and not finished.
Executing == {loc[w].item : w \in {x \in Workers : pc[x] \notin {"idle", "exited"}}}

\* The ids waiting in the task channel.
Queued == {tasks[i] : i \in 1..Len(tasks)}

\* An Enqueue that registers the id before it knows the send went through.
EnqueueSelectRegisterFirst(t) ==
  /\ sub[t] = "submit"
  /\ mu = 0
  /\ inflight' = [inflight EXCEPT ![t] = Queued \cup Executing]
  /\ active' = active \cup {t}
  /\ IF stop \in {"closed", "returned"}
     THEN /\ enqRes' = [enqRes EXCEPT ![t] = "panic"]
          /\ sub' = [sub EXCEPT ![t] = "done"]
          /\ UNCHANGED <<tasks, mu>>
     ELSE IF Len(tasks) < taskChanCap
     THEN /\ tasks' = Append(tasks, t)
          /\ mu' = 0 - t
          /\ sub' = [sub EXCEPT ![t] = "register"]
          /\ enqRes' = enqRes
     ELSE /\ enqRes' = [enqRes EXCEPT ![t] = "full"]
          /\ sub' = [sub EXCEPT ![t] = "done"]
          /\ UNCHANGED <<tasks, mu>>
  /\ UNCHANGED bvars
  /\ UNCHANGED <<resources, calls, row, mem, stop, logs, pc, loc, res, text, parseOut>>

\* Enqueue up to its select: q.mu is taken, the item is sent if the channel
\* has room, otherwise the error is returned and q.mu released. The send case
\* on a channel Stop has closed panics, and the deferred unlock releases q.mu.
EnqueueSelect(t) ==
  /\ sub[t] = "submit"
  /\ mu = 0
  /\ inflight' = [inflight EXCEPT ![t] = Queued \cup Executing]
  /\ IF stop \in {"closed", "returned"}
     THEN /\ enqRes' = [enqRes EXCEPT ![t] = "panic"]
          /\ sub' = [sub EXCEPT ![t] = "done"]
          /\ UNCHANGED <<tasks, mu>>
     ELSE IF Len(tasks) < taskChanCap
     THEN /\ tasks' = Append(tasks, t)
          /\ mu' = 0 - t
          /\ sub' = [sub EXCEPT ![t] = "register"]
          /\ enqRes' = enqRes
     ELSE /\ enqRes' = [enqRes EXCEPT ![t] = "full"]
          /\ sub' = [sub EXCEPT ![t] = "done"]
          /\ UNCHANGED <<tasks, mu>>
  /\ UNCHANGED bvars
  /\ UNCHANGED <<resources, calls, active, row, mem, stop, logs, pc, loc, res, text, parseOut>>

\* q.active[task.ID] = item; return nil (q.mu released by the defer).
EnqueueRegister(t) ==
  /\ sub[t] = "register"
  /\ active' = active \cup {t}
  /\ mu' = 0
  /\ enqRes' = [enqRes EXCEPT ![t] = "ok"]
  /\ sub' = [sub EXCEPT ![t] = "done"]
  /\ UNCHANGED bvars
  /\ UNCHANGED <<resources, calls, tasks, row, mem, inflight, stop, logs, pc, loc, res, text, parseOut>>

(***************************************************************************)
(* Resources, the CRD parser and the executor's resolution of references   *)
(***************************************************************************)
\* The one apiVersion Parse accepts.
APIVersion == "xgent.ai/v1"

\* The kinds Parse has a case for.
Kinds == {"Soul", "Mind", "Craft", "Robot", "Team", "Collaboration"}

\* The YAML keys of the model, flattened (metadata.name is "name",
\* spec.mcp.servers is "servers"), and the ones whose value is a list.
ListKeys == {"members", "servers"}

CommonKeys == {"apiVersion", "kind", "name", "description"}

\* The keys the struct of each kind has a field for.
KeysOf(kind) ==
  CommonKeys \cup
    (IF kind = "Soul" THEN {"personality"}
     ELSE IF kind = "Mind" THEN {"provider", "model_id"}
     ELSE IF kind = "Craft" THEN {"servers"}
     ELSE IF kind = "Robot" THEN {"soul", "mind", "craft"}
     ELSE IF kind = "Team" THEN {"leader", "members", "mode"}
     ELSE {})

\* The keys tagged omitempty.
OmitEmpty == {"description", "servers", "craft", "leader"}

\* The zero value of a key's field.
Zero(k) == IF k \in ListKeys THEN <<>> ELSE ""

\* A typed resource: gotype is the struct type (what GetKind returns), the
\* other fields are the struct's, named by their YAML keys. NoDoc is nil.
NoDoc ==
  [gotype |-> "", apiVersion |-> "", kind |-> "", name |-> "", description |-> "",
   personality |-> "", provider |-> "", model_id |-> "",
   soul |-> "", mind |-> "", craft |-> "", leader |-> "", members |-> <<>>, mode |-> "",
   servers |-> <<>>]

\* A text: whether it is YAML that unmarshals into Parse's meta struct,
\* whether its values have the types of the fields they name, and the keys it
\* has with their values.
NoText == [yaml |-> FALSE, typed |-> FALSE, fields |-> EmptyMap]

\* resource.GetKind()
GetKind(resource) == resource.gotype

\* yaml.Marshal that leaves out apiVersion.
MarshalNoVersion(resource) ==
  LET keys == {k \in KeysOf(GetKind(resource)) \ {"apiVersion"} :
                 k \in OmitEmpty => resource[k] # Zero(k)}
  IN [yaml |-> TRUE, typed |-> TRUE, fields |-> [k \in keys |-> resource[k]]]

\* Parser.Marshal: yaml.Marshal writes every field of the struct under its
\* key, except an omitempty field holding its zero value.
Marshal(resource) ==
  LET keys == {k \in KeysOf(GetKind(resource)) : k \in OmitEmpty => resource[k] # Zero(k)}
  IN [yaml |-> TRUE, typed |-> TRUE, fields |-> [k \in keys |-> resource[k]]]

\* yaml.Unmarshal into the struct of a kind: a field takes the value of its
\* key, a field whose key is absent keeps its zero value, other keys are
\* ignored.
Unmarshal(kind, fields) ==
  [k \in DOMAIN NoDoc |->
     IF k = "gotype" THEN kind
     ELSE IF k \in KeysOf(kind) /\ k \in DOMAIN fields THEN fields[k]
     ELSE Zero(k)]

\* The resources the stores hold, as the struct values their texts decode to.
Soul(n) ==
  [NoDoc EXCEPT !.gotype = "Soul", !.apiVersion = APIVersion, !.kind = "Soul", !.name = n,
                !.personality = "p"]

Mind(n) ==
  [NoDoc EXCEPT !.gotype = "Mind", !.apiVersion = APIVersion, !.kind = "Mind", !.name = n,
                !.provider = "openai", !.model_id = "m"]

Craft(n, servers) ==
  [NoDoc EXCEPT !.gotype = "Craft", !.apiVersion = APIVersion, !.kind = "Craft", !.name = n,
                !.servers = servers]

Robot(n, soul, mind, craft) ==
  [NoDoc EXCEPT !.gotype = "Robot", !.apiVersion = APIVersion, !.kind = "Robot", !.name = n,
                !.soul = soul, !.mind = mind, !.craft = craft]

Team(n, leader, members) ==
  [NoDoc EXCEPT !.gotype = "Team", !.apiVersion = APIVersion, !.kind = "Team", !.name = n,
                !.leader = leader, !.members = members, !.mode = "coordinate"]

\* Their texts.
SoulDoc(n) == Marshal(Soul(n))

MindDoc(n) == Marshal(Mind(n))

CraftDoc(n, servers) == Marshal(Craft(n, servers))

RobotDoc(n, soul, mind, craft) == Marshal(Robot(n, soul, mind, craft))

TeamDoc(n, leader, members) == Marshal(Team(n, leader, members))

\* A Validate that asks for the name last.
ValidateSpecFirst(r) ==
  IF GetKind(r) = "Soul" /\ r.personality = "" THEN "invalid spec"
  ELSE IF GetKind(r) = "Mind" /\ (r.provider = "" \/ r.model_id = "") THEN "invalid spec"
  ELSE IF GetKind(r) = "Robot" /\ (r.soul = "" \/ r.mind = "") THEN "invalid spec"
  ELSE IF GetKind(r) = "Team" /\ Len(r.members) = 0 THEN "invalid spec"
  ELSE IF r.name = "" THEN "invalid metadata"
  ELSE ""

\* resource.Validate(): the message of the error, "" for nil. Every kind
\* asks for a name first, then for the fields it requires.
Validate(r) ==
  IF r.name = "" THEN "invalid metadata"
  ELSE IF GetKind(r) = "Soul" /\ r.personality = "" THEN "invalid spec"
  ELSE IF GetKind(r) = "Mind" /\ (r.provider = "" \/ r.model_id = "") THEN "invalid spec"
  ELSE IF GetKind(r) = "Robot" /\ (r.soul = "" \/ r.mind = "") THEN "invalid spec"
  ELSE IF GetKind(r) = "Team" /\ Len(r.members) = 0 THEN "invalid spec"
  ELSE ""

\* Parse's last step: resource.Validate() on the decoded struct.
ParseValidated(resource, invalid) ==
  IF invalid # "" THEN [resource |-> NoDoc, err |-> <<"validation failed: ", invalid>>]
  ELSE [resource |-> resource, err |-> <<>>]

\* Parse's decode into the struct of the kind, then the validation.
ParseTyped(resource) == ParseValidated(resource, Validate(resource))

\* Parse after the meta struct is decoded: the apiVersion check, the switch
\* on kind, the decode of the whole text into the struct of that kind.
ParseMeta(data, apiVersion, kind) ==
  IF ~data.yaml THEN [resource |-> NoDoc, err |-> <<"failed to parse metadata: ", "yaml">>]
  ELSE IF apiVersion # APIVersion
    THEN [resource |-> NoDoc, err |-> <<"unsupported API version: ", apiVersion>>]
  ELSE IF kind \notin Kinds
    THEN [resource |-> NoDoc, err |-> <<"unknown resource kind: ", kind>>]
  ELSE IF ~data.typed
    THEN [resource |-> NoDoc, err |-> <<"failed to parse ", kind, ": ", "yaml">>]
  ELSE ParseTyped(Unmarshal(kind, data.fields))

\* Parser.Parse: the resource and nil, or nil and an error.
Parse(data) ==
  ParseMeta(data, MapGet(data.fields, "apiVersion", ""), MapGet(data.fields, "kind", ""))

\* Nothing parsed yet.
NoParse == [resource |-> NoDoc, err |-> <<"none">>]

\* A caller hands a text to Parse.
ParseCall(data) ==
  /\ text' = data
  /\ parseOut' = Parse(data)
  /\ res' = NoDoc
  /\ UNCHANGED bvars
  /\ UNCHANGED <<tasks, active, mu, row, mem, sub, enqRes, inflight, stop, logs, resources, calls,
                 pc, loc>>

\* A caller marshals a resource and parses the text it got.
MarshalCall(resource) ==
  /\ res' = resource
  /\ text' = Marshal(resource)
  /\ parseOut' = Parse(Marshal(resource))
  /\ UNCHANGED bvars
  /\ UNCHANGED <<tasks, active, mu, row, mem, sub, enqRes, inflight, stop, logs, resources, calls,
                 pc, loc>>

\* models.Resource
NoResource == [id |-> 0, workspace_id |-> 0, type |-> "", name |-> "", spec |-> NoText]

\* A row of the first workspace.
ResourceRow(id, type, name, spec) ==
  [id |-> id, workspace_id |-> 1, type |-> type, name |-> name, spec |-> spec]

\* Resources().GetByName on a table: First takes the matching row with the
\* lowest id, and without one returns gorm's ErrRecordNotFound.
GetByNameIn(table, ws, name, type) ==
  LET m == {r \in table : r.workspace_id = ws /\ r.name = name /\ r.type = type}
  IN IF m = {} THEN [row |-> NoResource, err |-> <<"record not found">>]
     ELSE [row |-> CHOOSE r \in m : \A o \in m : r.id <= o.id, err |-> <<>>]

GetByName(ws, name, type) == GetByNameIn(resources, ws, name, type)

\* Resources().Exists: a count of the matching rows.
Exists(ws, name, type) ==
  {r \in resources : r.workspace_id = ws /\ r.name = name /\ r.type = type} # {}

\* Resources().GetByID: the row, or gorm's ErrRecordNotFound.
GetByID(id) ==
  IF \E r \in resources : r.id = id
  THEN [row |-> CHOOSE r \in resources : r.id = id, err |-> <<>>]
  ELSE [row |-> NoResource, err |-> <<"record not found">>]

\* The id the table gives an inserted row.
NextID == IF resources = {} THEN 1 ELSE (CHOOSE i \in {r.id : r \in resources} :
                                          \A r \in resources : r.id <= i) + 1

\* Resources().Create: db.Create inserts the row under a new id.
Insert(r) == resources \cup {[r EXCEPT !.id = NextID]}

\* Resources().Update: db.Save writes every field of the row with that id.
Save(r) == {o \in resources : o.id # r.id} \cup {r}

\* The resource type Apply maps a kind to.
KindToType(kind) == kind

\* A client with no resource request in flight, and a request between its
\* read of the table and its write.
NoCall == [op |-> "none", row |-> NoResource]

\* The names, types and specs of the resource requests.
ResourceNames == {"x", "y"}

ResourceTypes == {"Soul", "Mind"}

RequestSpecs(name) == {SoulDoc(name), MindDoc(name), [SoulDoc(name) EXCEPT !.yaml = FALSE]}

\* ResourceHandler.Create up to the insert: the spec must parse, and the
\* request is refused with 409 when Exists finds a row.
CreateExists(c, type, name, spec) ==
  /\ calls[c].op = "none"
  /\ Parse(spec).err = <<>>
  /\ ~Exists(1, name, type)
  /\ calls' = [calls EXCEPT ![c] =
                 [op |-> "create", row |-> ResourceRow(0, type, name, spec)]]
  /\ UNCHANGED bvars
  /\ UNCHANGED <<tasks, active, mu, row, mem, sub, enqRes, inflight, stop, logs, resources, pc, loc, res, text, parseOut>>

\* ResourceHandler.Create: Resources().Create(resource).
CreateInsert(c) ==
  /\ calls[c].op = "create"
  /\ Cardinality(resources) < MaxResources
  /\ resources' = Insert(calls[c].row)
  /\ calls' = [calls EXCEPT ![c] = NoCall]
  /\ UNCHANGED bvars
  /\ UNCHANGED <<tasks, active, mu, row, mem, sub, enqRes, inflight, stop, logs, pc, loc, res, text, parseOut>>

\* ResourceHandler.Update up to the save: GetByID reads the row, the spec must
\* parse, and the request's name, description and spec are set on the copy.
UpdateGetByID(c, id, name, spec) ==
  /\ calls[c].op = "none"
  /\ GetByID(id).err = <<>>
  /\ Parse(spec).err = <<>>
  /\ calls' = [calls EXCEPT ![c] =
                 [op |-> "update", row |-> [GetByID(id).row EXCEPT !.name = name, !.spec = spec]]]
  /\ UNCHANGED bvars
  /\ UNCHANGED <<tasks, active, mu, row, mem, sub, enqRes, inflight, stop, logs, resources, pc, loc, res, text, parseOut>>

\* ResourceHandler.Update: Resources().Update(resource).
UpdateSave(c) ==
  /\ calls[c].op = "update"
  /\ resources' = Save(calls[c].row)
  /\ calls' = [calls EXCEPT ![c] = NoCall]
  /\ UNCHANGED bvars
  /\ UNCHANGED <<tasks, active, mu, row, mem, sub, enqRes, inflight, stop, logs, pc, loc, res, text, parseOut>>

\* ResourceHandler.Apply up to its write: the body must parse, its kind gives
\* the type and its metadata the name; GetByName decides between updating the
\* row it found and creating one.
ApplyGetByName(c, body) ==
  /\ calls[c].op = "none"
  /\ Parse(body).err = <<>>
  /\ LET type == KindToType(GetKind(Parse(body).resource))
         name == Parse(body).resource.name
         existingResource == GetByName(1, name, type)
     IN calls' = [calls EXCEPT ![c] =
                    IF existingResource.err = <<>>
                    THEN [op |-> "apply_update", row |-> [existingResource.row EXCEPT !.spec = body]]
                    ELSE [op |-> "apply_create", row |-> ResourceRow(0, type, name, body)]]
  /\ UNCHANGED bvars
  /\ UNCHANGED <<tasks, active, mu, row, mem, sub, enqRes, inflight, stop, logs, resources, pc, loc, res, text, parseOut>>

\* ResourceHandler.Apply: Resources().Update(existingResource) for the row it
\* found, Resources().Create(newResource) otherwise.
ApplyWrite(c) ==
  /\ calls[c].op \in {"apply_update", "apply_create"}
  /\ calls[c].op = "apply_create" => Cardinality(resources) < MaxResources
  /\ resources' = IF calls[c].op = "apply_update" THEN Save(calls[c].row) ELSE Insert(calls[c].row)
  /\ calls' = [calls EXCEPT ![c] = NoCall]
  /\ UNCHANGED bvars
  /\ UNCHANGED <<tasks, active, mu, row, mem, sub, enqRes, inflight, stop, logs, pc, loc, res, text, parseOut>>

\* What a resolution gives Execute: an error, a panic, or the configuration
\* runAgnoScript is entered with.
Failed(err) == [err |-> err, panic |-> FALSE, config |-> NoConfig]

Panicked == [err |-> <<>>, panic |-> TRUE, config |-> NoConfig]

Launch(config) == [err |-> <<>>, panic |-> FALSE, config |-> [config EXCEPT !.launched = TRUE]]

\* x.(*crd.K) without the ok check panics unless x holds a K; the nil a
\* failed Parse returned holds nothing.
IsA(resource, kind) == GetKind(resource) = kind

\* loadMCPTools: the servers of the craft, or no tools (and a warning) when
\* the craft is missing, does not parse or is of another kind.
LoadMCPTools(ws, craftName) ==
  LET craftResource == GetByName(ws, craftName, "Craft")
  IN IF craftResource.err # <<>> THEN <<>>
     ELSE LET parsed == Parse(craftResource.row.spec)
          IN IF parsed.err # <<>> THEN <<>>
             ELSE IF ~IsA(parsed.resource, "Craft") THEN <<>>
             ELSE parsed.resource.servers

\* executeBot up to the call of runAgnoScript.
ExecuteBot(task) ==
  LET ws == task.workspace_id
      robotResource == GetByName(ws, task.resource_name, "Robot")
      parsed == Parse(robotResource.row.spec)
      robot == parsed.resource
      soulResource == GetByName(ws, robot.soul, "Soul")
      soulDef == Parse(soulResource.row.spec).resource
      mindResource == GetByName(ws, robot.mind, "Mind")
      mindDef == Parse(mindResource.row.spec).resource
  IN IF robotResource.err # <<>> THEN Failed(<<"failed to load ", "robot", ": ">> \o robotResource.err)
     ELSE IF parsed.err # <<>> THEN Failed(<<"failed to parse robot spec: ">> \o parsed.err)
     ELSE IF ~IsA(robot, "Robot") THEN Failed(<<"invalid robot resource">>)
     ELSE IF soulResource.err # <<>> THEN Failed(<<"failed to load ", "soul", ": ">> \o soulResource.err)
     ELSE IF ~IsA(soulDef, "Soul") THEN Panicked
     ELSE IF mindResource.err # <<>> THEN Failed(<<"failed to load ", "mind", ": ">> \o mindResource.err)
     ELSE IF ~IsA(mindDef, "Mind") THEN Panicked
     ELSE Launch([NoConfig EXCEPT !.type = "robot", !.model = mindDef.name, !.soul = soulDef.name,
                                  !.tools = IF robot.craft # "" THEN LoadMCPTools(ws, robot.craft)
                                            ELSE <<>>])

\* loadRobotAsMember: the member configuration and the robot's mind, an
\* error, or a panic.
LoadRobotAsMember(ws, robotName) ==
  LET robotResource == GetByName(ws, robotName, "Robot")
      parsed == Parse(robotResource.row.spec)
      robot == parsed.resource
      soulResource == GetByName(ws, robot.soul, "Soul")
      soulDef == Parse(soulResource.row.spec).resource
      mindResource == GetByName(ws, robot.mind, "Mind")
      mindDef == Parse(mindResource.row.spec).resource
      none == [err |-> <<>>, panic |-> FALSE, member |-> "", mind |-> ""]
  IN IF robotResource.err # <<>>
       THEN [none EXCEPT !.err = <<"failed to load ", "robot", ": ">> \o robotResource.err]
     ELSE IF parsed.err # <<>>
       THEN [none EXCEPT !.err = <<"failed to parse robot spec: ">> \o parsed.err]
     ELSE IF ~IsA(robot, "Robot") THEN [none EXCEPT !.err = <<"invalid robot resource">>]
     ELSE IF soulResource.err # <<>>
       THEN [none EXCEPT !.err = <<"failed to load ", "soul", ": ">> \o soulResource.err]
     ELSE IF ~IsA(soulDef, "Soul") THEN [none EXCEPT !.panic = TRUE]
     ELSE IF mindResource.err # <<>>
       THEN [none EXCEPT !.err = <<"failed to load ", "mind", ": ">> \o mindResource.err]
     ELSE IF ~IsA(mindDef, "Mind") THEN [none EXCEPT !.panic = TRUE]
     ELSE [none EXCEPT !.member = robot.name, !.mind = mindDef.name]

\* executeTeam's loop over the member names: a member that fails to load is
\* skipped, and the first loaded member's mind is taken when there is none yet.
RECURSIVE LoadMembers(_, _, _, _)
LoadMembers(ws, names, members, leaderMind) ==
  IF names = <<>> THEN [panic |-> FALSE, members |-> members, leaderMind |-> leaderMind]
  ELSE LET r == LoadRobotAsMember(ws, Head(names))
       IN IF r.panic THEN [panic |-> TRUE, members |-> members, leaderMind |-> leaderMind]
          ELSE IF r.err # <<>> THEN LoadMembers(ws, Tail(names), members, leaderMind)
          ELSE LoadMembers(ws, Tail(names), Append(members, r.member),
                           IF leaderMind = "" THEN r.mind ELSE leaderMind)

\* executeTeam up to the call of runAgnoScript.
ExecuteTeam(task) ==
  LET ws == task.workspace_id
      teamResource == GetByName(ws, task.resource_name, "Team")
      parsed == Parse(teamResource.row.spec)
      teamDef == parsed.resource
      leader == LoadRobotAsMember(ws, teamDef.leader)
      hasLeader == teamDef.leader # ""
      loaded == LoadMembers(ws, teamDef.members, <<>>, IF hasLeader THEN leader.mind ELSE "")
  IN IF teamResource.err # <<>> THEN Failed(<<"failed to load ", "team", ": ">> \o teamResource.err)
     ELSE IF parsed.err # <<>> THEN Failed(<<"failed to parse team spec: ">> \o parsed.err)
     ELSE IF ~IsA(teamDef, "Team") THEN Failed(<<"invalid team resource">>)
     ELSE IF hasLeader /\ leader.panic THEN Panicked
     ELSE IF hasLeader /\ leader.err # <<>>
       THEN Failed(<<"failed to load leader robot: ">> \o leader.err)
     ELSE IF loaded.panic THEN Panicked
     ELSE IF loaded.members = <<>> /\ ~hasLeader
       THEN Failed(<<"team has no valid members or leader">>)
     ELSE IF loaded.leaderMind = "" THEN Failed(<<"no mind found for team">>)
     ELSE Launch([NoConfig EXCEPT !.type = "team", !.model = loaded.leaderMind,
                                  !.leader = IF hasLeader THEN leader.member ELSE "",
                                  !.members = loaded.members])

\* Execute's switch on task.ResourceType.
Resolve(task) ==
  IF task.resource_type \in {"bot", "robot"} THEN ExecuteBot(task)
  ELSE IF task.resource_type = "team" THEN ExecuteTeam(task)
  ELSE Failed(<<"unsupported resource type: ", task.resource_type>>)

(***************************************************************************)
(* TaskQueue.worker, processTask and AgnoExecutor.Execute                  *)
(***************************************************************************)
\* case item, ok := <-q.tasks, with an item in the channel (a closed channel
\* still hands out the items it holds).
WorkerReceive(w) ==
  /\ pc[w] = "idle"
  /\ tasks # <<>>
  /\ tasks' = Tail(tasks)
  /\ loc' = [loc EXCEPT ![w] = [InitLoc EXCEPT !.item = Head(tasks)]]
  /\ pc' = [pc EXCEPT ![w] = "exec"]
  /\ UNCHANGED bvars
  /\ UNCHANGED <<resources, calls, active, mu, row, mem, sub, enqRes, inflight, stop, logs, res, text, parseOut>>

\* case <-q.ctx.Done(), or the receive from the closed and empty channel: the
\* worker returns. With the context cancelled and an item in the channel the
\* select may take either case.
WorkerExit(w) ==
  /\ pc[w] = "idle"
  /\ stop # "no"
  /\ pc' = [pc EXCEPT ![w] = "exited"]
  /\ UNCHANGED bvars
  /\ UNCHANGED <<resources, calls, tasks, active, mu, row, mem, sub, enqRes, inflight, stop, logs, loc, res, text, parseOut>>

\* Execute: task.Status = running; Tasks().Update(task); callback(10, running).
ExecuteStart(w) ==
  /\ pc[w] = "exec"
  /\ LET t == loc[w].item
     IN /\ mem' = [mem EXCEPT ![t].status = "running"]
        /\ row' = [row EXCEPT ![t] = mem'[t]]
        /\ loc' = [loc EXCEPT ![w] =
                     CallbackCall(w, t, 10, "running", <<"Task started">>, "info", "resolve")]
  /\ pc' = [pc EXCEPT ![w] = "cb_bcast"]
  /\ UNCHANGED bvars
  /\ UNCHANGED <<resources, calls, tasks, active, mu, sub, enqRes, inflight, stop, logs, res, text, parseOut>>

\* A switch in which debug events reach the callback as well.
CallbackTypesAndDebug ==
  {"started", "content", "run_started", "team_run_started", "run_completed",
   "team_run_completed", "tool_call_started", "member_tool_started",
   "tool_call_completed", "member_tool_completed", "reasoning", "mcp_connected",
   "thinking_step", "session_reused", "git_downloaded", "debug"}

\* The event types whose case in runAgnoScript calls the callback.
CallbackTypes ==
  {"started", "content", "run_started", "team_run_started", "run_completed",
   "team_run_completed", "tool_call_started", "member_tool_started",
   "tool_call_completed", "member_tool_completed", "reasoning", "mcp_connected",
   "thinking_step", "session_reused", "git_downloaded"}

\* The progress runAgnoScript reports for a runner event that reaches the
\* callback.
EventProgress(type) ==
  CASE type = "started" -> 20
    [] type = "content" -> 50
    [] type \in {"run_started", "team_run_started"} -> 30
    [] type \in {"run_completed", "team_run_completed"} -> 90
    [] type \in {"tool_call_started", "member_tool_started"} -> 60
    [] type \in {"tool_call_completed", "member_tool_completed"} -> 70
    [] type = "reasoning" -> 55
    [] type \in {"mcp_connected", "session_reused"} -> 25
    [] type = "thinking_step" -> 40
    [] type = "git_downloaded" -> 15
    [] OTHER -> 0

\* The message runAgnoScript passes to the callback for a runner event.
EventMessage(type, content) ==
  CASE type = "started" -> <<"Agent started">>
    [] type \in {"tool_call_started", "member_tool_started"} -> <<"Tool call started">>
    [] type \in {"tool_call_completed", "member_tool_completed"} -> <<"Tool call completed">>
    [] type = "reasoning" -> <<"Reasoning">>
    [] OTHER -> content

\* A line of runner output that parses as an event record.
Line(type, content) == [json |-> TRUE, type |-> type, content |-> content]

\* A line of runner output that json.Unmarshal rejects.
RawLine == [json |-> FALSE, type |-> "", content |-> <<"raw">>]

\* The runner lines the pipeline specification feeds a run.
RunnerInputs == {Line("content", <<"hello">>)}

\* One iteration of runAgnoScript's read loop: a line that does not parse is
\* skipped; a parsed one is appended to eventLogs and handled by its type.
\* lines keeps every line the scanner returned.
RunnerEvent(w, line) ==
  /\ pc[w] = "run"
  /\ ~loc[w].stopped
  /\ IF line.json /\ line.type \in CallbackTypes
     THEN /\ loc' = [loc EXCEPT ![w] =
                       [CallbackCall(w, loc[w].item, EventProgress(line.type), "running",
                                     EventMessage(line.type, line.content), line.type, "run")
                          EXCEPT !.nev = @ + 1,
                                 !.lines = Append(@, line),
                                 !.eventLogs = Append(@, line),
                                 !.fullContent = IF line.type = "content" THEN @ \o line.content ELSE @]]
          /\ pc' = [pc EXCEPT ![w] = "cb_bcast"]
     ELSE /\ loc' = [loc EXCEPT ![w].nev = @ + 1,
                                ![w].lines = Append(@, line),
                                ![w].eventLogs = IF line.json THEN Append(@, line) ELSE @,
                                ![w].lastError = IF line.json /\ line.type = "error" THEN line.content ELSE @,
                                ![w].stopped = line.json /\ line.type = "cancelled"]
          /\ pc' = pc
  /\ UNCHANGED bvars
  /\ UNCHANGED qvars

\* The exit codes of the runner subprocess.
ExitCodes == {0, 1}

\* What runAgnoScript returns as its error, <<>> for nil: after a cancelled
\* event it returns at once; otherwise it waits for the subprocess and a
\* non-zero exit is reported with lastError when there is one.
RunError(stopped, exit, lastError) ==
  IF stopped \/ exit = 0 THEN <<>>
  ELSE IF lastError # <<>> THEN <<"python script error: ">> \o lastError
  ELSE <<"python script finished with error">>

\* An Execute that leaves the event log out of the final fields.
FinalFieldsNoEventLogs(task, err, result, eventLogs) ==
  IF err # <<>>
  THEN [task EXCEPT !.completed_at = TRUE, !.duration = TRUE,
                    !.status = "failed", !.error = err]
  ELSE [task EXCEPT !.completed_at = TRUE, !.duration = TRUE,
                    !.status = "completed", !.result = result, !.progress = 100]

\* The task object after Execute's "Update task with result": runAgnoScript
\* returned (result, eventLogs, err), with empty strings beside an error.
FinalFields(task, err, result, eventLogs) ==
  IF err # <<>>
  THEN [task EXCEPT !.completed_at = TRUE, !.duration = TRUE,
                    !.status = "failed", !.error = err]
  ELSE [task EXCEPT !.completed_at = TRUE, !.duration = TRUE,
                    !.status = "completed", !.result = result, !.progress = 100,
                    !.event_logs = eventLogs]

\* Execute after the first callback: executeBot or executeTeam resolves the
\* task's references. An error comes back to Execute, which writes the final
\* fields and calls the callback with failed; a panic unwinds to processTask's
\* deferred function; otherwise runAgnoScript is entered with the
\* configuration.
ExecuteResolve(w) ==
  /\ pc[w] = "resolve"
  /\ LET t == loc[w].item
         out == Resolve(mem[t])
     IN IF out.panic
        THEN /\ loc' = [loc EXCEPT ![w].panicked = TRUE]
             /\ pc' = [pc EXCEPT ![w] = "defer"]
             /\ UNCHANGED <<mem, row>>
        ELSE IF out.err # <<>>
        THEN /\ mem' = [mem EXCEPT ![t] = FinalFields(@, out.err, <<>>, <<>>)]
             /\ row' = [row EXCEPT ![t] = mem'[t]]
             /\ loc' = [loc EXCEPT ![w] =
                          [CallbackCall(w, t, 0, "failed", out.err, "info", "proc_err")
                             EXCEPT !.err = TRUE, !.returned = TRUE]]
             /\ pc' = [pc EXCEPT ![w] = "cb_bcast"]
        ELSE /\ loc' = [loc EXCEPT ![w].config = out.config]
             /\ pc' = [pc EXCEPT ![w] = "run"]
             /\ UNCHANGED <<mem, row>>
  /\ UNCHANGED bvars
  /\ UNCHANGED <<resources, calls, tasks, active, mu, sub, enqRes, inflight, stop, logs, res, text, parseOut>>

\* runAgnoScript returned (the read loop ended or a cancelled event was
\* read): Execute writes the final fields from its task object and calls the
\* callback with the terminal status. exit keeps what cmd.Wait saw, and stays
\* unset when a cancelled event ended the run before the wait.
ExecuteFinish(w, exit) ==
  /\ pc[w] = "run"
  /\ LET t == loc[w].item
         err == RunError(loc[w].stopped, exit, loc[w].lastError)
     IN /\ mem' = [mem EXCEPT ![t] =
                     FinalFields(@, err,
                                 IF err # <<>> THEN <<>> ELSE loc[w].fullContent,
                                 IF err # <<>> THEN <<>> ELSE loc[w].eventLogs)]
        /\ row' = [row EXCEPT ![t] = mem'[t]]
        /\ loc' = [loc EXCEPT ![w] =
                     [(IF err # <<>> THEN CallbackCall(w, t, 0, "failed", err, "info", "proc_err")
                       ELSE CallbackCall(w, t, 100, "completed", <<"Task completed">>, "info", "defer"))
                        EXCEPT !.err = (err # <<>>),
                               !.exit = IF loc[w].stopped THEN @ ELSE exit,
                               !.returned = TRUE]]
  /\ pc' = [pc EXCEPT ![w] = "cb_bcast"]
  /\ UNCHANGED bvars
  /\ UNCHANGED <<resources, calls, tasks, active, mu, sub, enqRes, inflight, stop, logs, res, text, parseOut>>

\* The executor panics during a run: the stack unwinds to processTask's
\* deferred function.
ExecutePanic(w) ==
  /\ pc[w] = "run"
  /\ loc' = [loc EXCEPT ![w].panicked = TRUE]
  /\ pc' = [pc EXCEPT ![w] = "defer"]
  /\ UNCHANGED bvars
  /\ UNCHANGED qvars

\* processTask: Execute returned an error, the callback is called with
\* failed and "execution failed: ...".
ProcessTaskError(w) ==
  /\ pc[w] = "proc_err"
  /\ loc' = [loc EXCEPT ![w] =
               CallbackCall(w, loc[w].item, 0, "failed",
                            <<"execution failed: ">> \o mem[loc[w].item].error, "info", "defer")]
  /\ pc' = [pc EXCEPT ![w] = "cb_bcast"]
  /\ UNCHANGED bvars
  /\ UNCHANGED qvars

\* A deferred function that deletes the entry without taking q.mu.
ProcessTaskDeferUnlocked(w) ==
  /\ pc[w] = "defer"
  /\ active' = active \ {loc[w].item}
  /\ IF loc[w].panicked
     THEN /\ loc' = [loc EXCEPT ![w] =
                       CallbackCall(w, loc[w].item, 0, "failed", <<"panic: ", "v">>, "info", "idle")]
          /\ pc' = [pc EXCEPT ![w] = "cb_bcast"]
     ELSE /\ loc' = [loc EXCEPT ![w] = InitLoc]
          /\ pc' = [pc EXCEPT ![w] = "idle"]
  /\ UNCHANGED bvars
  /\ UNCHANGED <<resources, calls, tasks, mu, row, mem, sub, enqRes, inflight, stop, logs, res, text, parseOut>>

\* A deferred function that reports the panic and keeps the entry.
ProcessTaskDeferKeepsEntry(w) ==
  /\ pc[w] = "defer"
  /\ mu = 0
  /\ IF loc[w].panicked
     THEN /\ loc' = [loc EXCEPT ![w] =
                       CallbackCall(w, loc[w].item, 0, "failed", <<"panic: ", "v">>, "info", "idle")]
          /\ pc' = [pc EXCEPT ![w] = "cb_bcast"]
     ELSE /\ loc' = [loc EXCEPT ![w] = InitLoc]
          /\ pc' = [pc EXCEPT ![w] = "idle"]
  /\ UNCHANGED bvars
  /\ UNCHANGED qvars

\* processTask's deferred function: delete(q.active, item.Task.ID) under q.mu;
\* then, when recover() returns a value, the callback is called with failed
\* and "panic: <value>". The worker is back at its select afterwards.
ProcessTaskDefer(w) ==
  /\ pc[w] = "defer"
  /\ mu = 0
  /\ active' = active \ {loc[w].item}
  /\ IF loc[w].panicked
     THEN /\ loc' = [loc EXCEPT ![w] =
                       CallbackCall(w, loc[w].item, 0, "failed", <<"panic: ", "v">>, "info", "idle")]
          /\ pc' = [pc EXCEPT ![w] = "cb_bcast"]
     ELSE /\ loc' = [loc EXCEPT ![w] = InitLoc]
          /\ pc' = [pc EXCEPT ![w] = "idle"]
  /\ UNCHANGED bvars
  /\ UNCHANGED <<resources, calls, tasks, mu, row, mem, sub, enqRes, inflight, stop, logs, res, text, parseOut>>

(***************************************************************************)
(* TaskHandler.Cancel and TaskQueue.Cancel                                 *)
(***************************************************************************)
\* The cancel request reads the task row it will save later.
CancelRequest(h, t) ==
  /\ pc[h] = "idle"
  /\ t \in DOMAIN row
  /\ loc' = [loc EXCEPT ![h].item = t, ![h].hcopy = row[t]]
  /\ pc' = [pc EXCEPT ![h] = "cancel_lock"]
  /\ UNCHANGED bvars
  /\ UNCHANGED qvars

\* A Cancel whose "task not found" return leaves q.mu locked.
CancelLookupKeepsLock(h) ==
  /\ pc[h] = "cancel_lock"
  /\ mu = 0
  /\ IF loc[h].item \in active
     THEN /\ mu' = h
          /\ loc' = [loc EXCEPT ![h] =
                       CallbackCall(h, loc[h].item, 0, "cancelled", <<"Task cancelled by user">>,
                                    "info", "cancel_del")]
          /\ pc' = [pc EXCEPT ![h] = "cb_bcast"]
     ELSE /\ mu' = h
          /\ loc' = [loc EXCEPT ![h] = InitLoc]
          /\ pc' = [pc EXCEPT ![h] = "idle"]
  /\ UNCHANGED bvars
  /\ UNCHANGED <<resources, calls, tasks, active, row, mem, sub, enqRes, inflight, stop, logs, res, text, parseOut>>

\* TaskQueue.Cancel takes q.mu and looks the id up: without an entry it
\* returns "task not found" (and the request ends with an error); with one it
\* calls the callback with cancelled, still holding q.mu.
CancelLookup(h) ==
  /\ pc[h] = "cancel_lock"
  /\ mu = 0
  /\ IF loc[h].item \in active
     THEN /\ mu' = h
          /\ loc' = [loc EXCEPT ![h] =
                       CallbackCall(h, loc[h].item, 0, "cancelled", <<"Task cancelled by user">>,
                                    "info", "cancel_del")]
          /\ pc' = [pc EXCEPT ![h] = "cb_bcast"]
     ELSE /\ mu' = mu
          /\ loc' = [loc EXCEPT ![h] = InitLoc]
          /\ pc' = [pc EXCEPT ![h] = "idle"]
  /\ UNCHANGED bvars
  /\ UNCHANGED <<resources, calls, tasks, active, row, mem, sub, enqRes, inflight, stop, logs, res, text, parseOut>>

\* A Cancel that returns without deleting the entry it found.
CancelDeleteKeepsEntry(h) ==
  /\ pc[h] = "cancel_del"
  /\ mu' = 0
  /\ pc' = [pc EXCEPT ![h] = "cancel_upd"]
  /\ UNCHANGED bvars
  /\ UNCHANGED <<resources, calls, tasks, active, row, mem, sub, enqRes, inflight, stop, logs, loc, res, text, parseOut>>

\* delete(q.active, taskID); return nil (q.mu released by the defer).
CancelDelete(h) ==
  /\ pc[h] = "cancel_del"
  /\ active' = active \ {loc[h].item}
  /\ mu' = 0
  /\ pc' = [pc EXCEPT ![h] = "cancel_upd"]
  /\ UNCHANGED bvars
  /\ UNCHANGED <<resources, calls, tasks, row, mem, sub, enqRes, inflight, stop, logs, loc, res, text, parseOut>>

\* task.Status = cancelled; Tasks().Update(task): the row read at the start
\* of the request is saved whole.
CancelUpdate(h) ==
  /\ pc[h] = "cancel_upd"
  /\ row' = [row EXCEPT ![loc[h].item] = [loc[h].hcopy EXCEPT !.status = "cancelled"]]
  /\ pc' = [pc EXCEPT ![h] = "idle"]
  /\ loc' = [loc EXCEPT ![h] = InitLoc]
  /\ UNCHANGED bvars
  /\ UNCHANGED <<resources, calls, tasks, active, mu, mem, sub, enqRes, inflight, stop, logs, res, text, parseOut>>

(***************************************************************************)
(* TaskQueue.Stop                                                          *)
(***************************************************************************)
\* q.cancel()
StopCancel ==
  /\ stop = "no"
  /\ stop' = "cancelled"
  /\ UNCHANGED bvars
  /\ UNCHANGED <<resources, calls, tasks, active, mu, row, mem, sub, enqRes, inflight, logs, pc, loc, res, text, parseOut>>

\* close(q.tasks)
StopClose ==
  /\ stop = "cancelled"
  /\ stop' = "closed"
  /\ UNCHANGED bvars
  /\ UNCHANGED <<resources, calls, tasks, active, mu, row, mem, sub, enqRes, inflight, logs, pc, loc, res, text, parseOut>>

\* q.wg.Wait() returns once every worker has run its deferred wg.Done().
StopWait ==
  /\ stop = "closed"
  /\ \A w \in Workers : pc[w] = "exited"
  /\ stop' = "returned"
  /\ UNCHANGED bvars
  /\ UNCHANGED <<resources, calls, tasks, active, mu, row, mem, sub, enqRes, inflight, logs, pc, loc, res, text, parseOut>>

\* The state after construction, with the resource table holding store.
InitWith(store) ==
  /\ subscribers = EmptyMap
  /\ buffers = EmptyMap
  /\ chans = <<>>
  /\ recvd = <<>>
  /\ published = [t \in Tasks |-> <<>>]
  /\ subAt = <<>>
  /\ dropped = <<>>
  /\ overlap = [t \in Tasks |-> FALSE]
  /\ tasks = <<>>
  /\ active = {}
  /\ mu = 0
  /\ row = EmptyMap
  /\ mem = EmptyMap
  /\ sub = [t \in Tasks |-> "new"]
  /\ enqRes = [t \in Tasks |-> "none"]
  /\ inflight = [t \in Tasks |-> {}]
  /\ stop = "no"
  /\ logs = [t \in Tasks |-> EmptyBag]
  /\ resources = store
  /\ calls = [c \in Clients |-> NoCall]
  /\ res = NoDoc
  /\ text = NoText
  /\ parseOut = NoParse
  /\ closed = <<>>
  /\ conn = <<>>
  /\ now = 0
  /\ createdAt = EmptyMap
  /\ swept = 0
  /\ pc = [p \in Procs |-> "idle"]
  /\ loc = [p \in Procs |-> InitLoc]

\* The rows of a robot with its soul and mind, all of the kind their type names.
GoodStore ==
  {[id |-> 1, workspace_id |-> 1, type |-> "Robot", name |-> "bot",
    spec |-> RobotDoc("bot", "bot-soul", "bot-mind", "")],
   [id |-> 2, workspace_id |-> 1, type |-> "Soul", name |-> "bot-soul", spec |-> SoulDoc("bot-soul")],
   [id |-> 3, workspace_id |-> 1, type |-> "Mind", name |-> "bot-mind", spec |-> MindDoc("bot-mind")]}

Init == InitWith(GoodStore)

\* The robots of the resolver specification, with the names of each one's
\* soul and mind and the ids of their rows.
RobotNames == <<"bot", "lead", "a", "b">>

SoulName(n) ==
  CASE n = "bot" -> "bot-soul" [] n = "lead" -> "lead-soul" [] n = "a" -> "a-soul" [] OTHER -> "b-soul"

MindName(n) ==
  CASE n = "bot" -> "bot-mind" [] n = "lead" -> "lead-mind" [] n = "a" -> "a-mind" [] OTHER -> "b-mind"

RobotId(n) == CHOOSE i \in 1..Len(RobotNames) : RobotNames[i] = n

\* How the rows of one robot may be found: all there, one of them missing, or
\* one stored with the spec of another kind (Create stores the request's type
\* beside any spec that parses).
RobotCases ==
  {"ok", "missing", "wrongkind", "soul_missing", "soul_wrongkind", "mind_missing", "mind_wrongkind"}

CraftCases == {"none", "ok", "missing", "wrongkind"}

\* The rows of robot n in case c, the robot naming craft.
RobotRows(n, c, craft) ==
  (IF c = "missing" THEN {}
   ELSE {ResourceRow(RobotId(n), "Robot", n,
                     IF c = "wrongkind" THEN SoulDoc(n)
                     ELSE RobotDoc(n, SoulName(n), MindName(n), craft))})
  \cup (IF c = "soul_missing" THEN {}
        ELSE {ResourceRow(RobotId(n) + 4, "Soul", SoulName(n),
                          IF c = "soul_wrongkind" THEN MindDoc(SoulName(n)) ELSE SoulDoc(SoulName(n)))})
  \cup (IF c = "mind_missing" THEN {}
        ELSE {ResourceRow(RobotId(n) + 8, "Mind", MindName(n),
                          IF c = "mind_wrongkind" THEN SoulDoc(MindName(n)) ELSE MindDoc(MindName(n)))})

\* The craft row in case k.
CraftRows(k) ==
  IF k = "ok" THEN {ResourceRow(13, "Craft", "tools", CraftDoc("tools", <<"srv">>))}
  ELSE IF k = "wrongkind" THEN {ResourceRow(13, "Craft", "tools", SoulDoc("tools"))}
  ELSE {}

\* The tables with the robot "bot", and the tables with the team "crew" of
\* members a and b, led by "lead" or by nobody.
RobotStores ==
  {RobotRows("bot", c, IF k = "none" THEN "" ELSE "tools") \cup CraftRows(k) :
     c \in RobotCases, k \in CraftCases}

TeamStores ==
  {{ResourceRow(14, "Team", "crew", TeamDoc("crew", IF l = "none" THEN "" ELSE "lead", <<"a", "b">>))}
   \cup (IF l = "none" THEN {} ELSE RobotRows("lead", l, ""))
   \cup RobotRows("a", ca, "") \cup RobotRows("b", cb, "") :
     l \in RobotCases \cup {"none"}, ca \in RobotCases, cb \in RobotCases}

Stores == RobotStores \cup TeamStores

\* The requests of the resolver specification: resource type and name.
Requests == {<<"robot", "bot">>, <<"team", "crew">>, <<"workflow", "bot">>}

InitR == \E store \in Stores : InitWith(store)

\* The broadcaster on its own: every goroutine may call Broadcast for the
\* first task, connections subscribe and read.
NextB ==
  \/ \E p \in Publishers : BroadcastCall(p, 1)
  \/ \E p \in Publishers : BroadcastSend(p)
  \/ StreamSubscribe(1)
  \/ \E c \in 1..MaxSubs : StreamRecv(c)

SpecB == Init /\ [][NextB]_vars

\* The pipeline: submissions, workers, cancel requests and the callbacks they
\* run, with no stream connection attached (Broadcast's snapshot is empty).
Next ==
  \/ \E t \in Tasks : CreateTask(t)
  \/ \E t \in Tasks : EnqueueSelect(t)
  \/ \E t \in Tasks : EnqueueRegister(t)
  \/ \E w \in Workers : WorkerReceive(w)
  \/ \E w \in Workers : ExecuteStart(w)
  \/ \E w \in Workers : ExecuteResolve(w)
  \/ \E w \in Workers : \E line \in RunnerInputs : loc[w].nev < MaxRunEvents /\ RunnerEvent(w, line)
  \/ \E w \in Workers : \E exit \in ExitCodes : ExecuteFinish(w, exit)
  \/ \E w \in Workers : ProcessTaskError(w)
  \/ \E w \in Workers : ProcessTaskDefer(w)
  \/ \E h \in Handlers : \E t \in Tasks : CancelRequest(h, t)
  \/ \E h \in Handlers : CancelLookup(h)
  \/ \E h \in Handlers : CancelDelete(h)
  \/ \E h \in Handlers : CancelUpdate(h)
  \/ \E p \in Procs : CallbackBroadcast(p)
  \/ \E p \in Procs : CallbackGetByID(p)
  \/ \E p \in Procs : CallbackUpdate(p)

Spec == Init /\ [][Next]_vars

\* The pipeline for the first task alone, with one stream connection
\* attached to it: the callbacks' events reach a subscriber channel.
NextS ==
  \/ CreateTask(1)
  \/ EnqueueSelect(1)
  \/ EnqueueRegister(1)
  \/ \E w \in Workers : WorkerReceive(w)
  \/ \E w \in Workers : ExecuteStart(w)
  \/ \E w \in Workers : ExecuteResolve(w)
  \/ \E w \in Workers : \E line \in RunnerInputs : loc[w].nev < MaxRunEvents /\ RunnerEvent(w, line)
  \/ \E w \in Workers : \E exit \in ExitCodes : ExecuteFinish(w, exit)
  \/ \E w \in Workers : ProcessTaskError(w)
  \/ \E w \in Workers : ProcessTaskDefer(w)
  \/ \E h \in Handlers : CancelRequest(h, 1)
  \/ \E h \in Handlers : CancelLookup(h)
  \/ \E h \in Handlers : CancelDelete(h)
  \/ \E h \in Handlers : CancelUpdate(h)
  \/ \E p \in Procs : CallbackBroadcast(p)
  \/ \E p \in Procs : BroadcastSend(p)
  \/ \E p \in Procs : CallbackGetByID(p)
  \/ \E p \in Procs : CallbackUpdate(p)
  \/ chans = <<>> /\ StreamSubscribe(1)
  \/ StreamRecv(1)

SpecS == Init /\ [][NextS]_vars

\* The queue with Stop and panics: submissions, workers that may exit, an
\* executor that returns or panics, cancel requests and Stop.
NextQ ==
  \/ \E t \in Tasks : CreateTask(t)
  \/ \E t \in Tasks : EnqueueSelect(t)
  \/ \E t \in Tasks : EnqueueRegister(t)
  \/ \E w \in Workers : WorkerReceive(w)
  \/ \E w \in Workers : WorkerExit(w)
  \/ \E w \in Workers : ExecuteStart(w)
  \/ \E w \in Workers : ExecuteResolve(w)
  \/ \E w \in Workers : \E exit \in ExitCodes : ExecuteFinish(w, exit)
  \/ \E w \in Workers : ExecutePanic(w)
  \/ \E w \in Workers : ProcessTaskError(w)
  \/ \E w \in Workers : ProcessTaskDefer(w)
  \/ \E h \in Handlers : \E t \in Tasks : CancelRequest(h, t)
  \/ \E h \in Handlers : CancelLookup(h)
  \/ \E h \in Handlers : CancelDelete(h)
  \/ \E h \in Handlers : CancelUpdate(h)
  \/ \E p \in Procs : CallbackBroadcast(p)
  \/ \E p \in Procs : CallbackGetByID(p)
  \/ \E p \in Procs : CallbackUpdate(p)
  \/ StopCancel
  \/ StopClose
  \/ StopWait

SpecQ == Init /\ [][NextQ]_vars

\* A worker goroutine's next step, whichever it is, outside the resolution
\* of the task's references: the receive, the executor's first step and the
\* runner's exit, the callback, processTask's deferred function.
WorkerStep(w) ==
  \/ WorkerReceive(w)
  \/ WorkerExit(w)
  \/ ExecuteStart(w)
  \/ \E exit \in ExitCodes : ExecuteFinish(w, exit)
  \/ ProcessTaskError(w)
  \/ ProcessTaskDefer(w)
  \/ CallbackBroadcast(w)
  \/ CallbackGetByID(w)
  \/ CallbackUpdate(w)

\* A request goroutine's next step once it is inside Enqueue.
RequestStep ==
  \/ \E t \in Tasks : EnqueueSelect(t)
  \/ \E t \in Tasks : EnqueueRegister(t)

\* The life of submitted tasks with no cancel request and no panic:
\* submissions, the worker and its callbacks, and Stop.
NextL ==
  \/ \E t \in Tasks : CreateTask(t)
  \/ \E t \in Tasks : EnqueueSelect(t)
  \/ \E t \in Tasks : EnqueueRegister(t)
  \/ \E w \in Workers : WorkerReceive(w)
  \/ \E w \in Workers : WorkerExit(w)
  \/ \E w \in Workers : ExecuteStart(w)
  \/ \E w \in Workers : ExecuteResolve(w)
  \/ \E w \in Workers : \E exit \in ExitCodes : ExecuteFinish(w, exit)
  \/ \E w \in Workers : ProcessTaskError(w)
  \/ \E w \in Workers : ProcessTaskDefer(w)
  \/ \E w \in Workers : CallbackBroadcast(w)
  \/ \E w \in Workers : CallbackGetByID(w)
  \/ \E w \in Workers : CallbackUpdate(w)
  \/ StopCancel
  \/ StopClose
  \/ StopWait

SpecL == Init /\ [][NextL]_vars

\* SpecL with goroutines that keep running: every worker is scheduled and
\* every runner exits, every request that entered Enqueue goes on, Stop
\* goes on once called. Submissions and Stop happen when callers make them.
\* ExecuteResolve is enabled exactly when the worker is at "resolve" and
\* every step of it leaves "resolve", so weak fairness on it says that the
\* worker is away from "resolve" again and again.
SpecLF ==
  /\ SpecL
  /\ \A w \in Workers : WF_vars(WorkerStep(w))
  /\ \A w \in Workers : []<>(pc[w] # "resolve")
  /\ WF_vars(RequestStep)
  /\ WF_vars(StopClose \/ StopWait)

\* A request goroutine's next step once it is inside Cancel, the callback
\* and Broadcast's send loop included.
CancelStep(h) ==
  \/ CancelLookup(h)
  \/ CancelDelete(h)
  \/ CancelUpdate(h)
  \/ CallbackBroadcast(h)
  \/ BroadcastSend(h)
  \/ CallbackGetByID(h)
  \/ CallbackUpdate(h)

\* Task 1 with everything that takes q.mu or b.mu around it: Enqueue, the
\* worker and its callbacks, cancel requests, and a stream connection that
\* subscribes (Subscribe) and goes away (Unsubscribe) without reading.
NextM ==
  \/ CreateTask(1)
  \/ EnqueueSelect(1)
  \/ EnqueueRegister(1)
  \/ \E w \in Workers : WorkerReceive(w)
  \/ \E w \in Workers : ExecuteStart(w)
  \/ \E w \in Workers : ExecuteResolve(w)
  \/ \E w \in Workers : \E exit \in ExitCodes : ExecuteFinish(w, exit)
  \/ \E w \in Workers : ProcessTaskError(w)
  \/ \E w \in Workers : ProcessTaskDefer(w)
  \/ \E h \in Handlers : CancelRequest(h, 1)
  \/ \E h \in Handlers : CancelLookup(h)
  \/ \E h \in Handlers : CancelDelete(h)
  \/ \E h \in Handlers : CancelUpdate(h)
  \/ \E p \in Procs : CallbackBroadcast(p)
  \/ \E p \in Procs : BroadcastSend(p)
  \/ \E p \in Procs : CallbackGetByID(p)
  \/ \E p \in Procs : CallbackUpdate(p)
  \/ chans = <<>> /\ StreamSubscribe(1)
  \/ StreamDone(1)

SpecM == Init /\ [][NextM]_vars

\* SpecM with goroutines that keep running: the worker, a request inside
\* Enqueue, a request inside Cancel. ExecuteResolve is enabled exactly when
\* the worker is at "resolve" and every step of it leaves "resolve".
SpecMF ==
  /\ SpecM
  /\ \A w \in Workers : WF_vars(WorkerStep(w) \/ BroadcastSend(w))
  /\ \A w \in Workers : []<>(pc[w] # "resolve")
  /\ \A h \in Handlers : WF_vars(CancelStep(h))
  /\ WF_vars(RequestStep)

\* runner lines one run may emit in the executor specification.
MaxRunLines == 4

\* The runner lines the executor specification feeds a run.
RunnerLines ==
  {Line("started", <<>>), Line("content", <<"hello">>), Line("content", <<" world">>),
   Line("completed", <<>>), Line("error", <<"boom">>), Line("cancelled", <<>>),
   Line("debug", <<"dbg">>), Line("debug_event", <<"dbg">>), Line("run_content", <<"dbg">>),
   RawLine}

\* The executor: one task run by one worker on any runner output and exit
\* code, with one stream connection attached before the first broadcast, and
\* no cancel request.
NextX ==
  \/ CreateTask(1)
  \/ EnqueueSelect(1)
  \/ EnqueueRegister(1)
  \/ \E w \in Workers : WorkerReceive(w)
  \/ \E w \in Workers : ExecuteStart(w)
  \/ \E w \in Workers : ExecuteResolve(w)
  \/ \E w \in Workers : \E line \in RunnerLines : loc[w].nev < MaxRunLines /\ RunnerEvent(w, line)
  \/ \E w \in Workers : \E exit \in ExitCodes : ExecuteFinish(w, exit)
  \/ \E w \in Workers : ProcessTaskError(w)
  \/ \E w \in Workers : ProcessTaskDefer(w)
  \/ \E p \in Procs : CallbackBroadcast(p)
  \/ \E p \in Procs : BroadcastSend(p)
  \/ \E p \in Procs : CallbackGetByID(p)
  \/ \E p \in Procs : CallbackUpdate(p)
  \/ chans = <<>> /\ published[1] = <<>> /\ StreamSubscribe(1)
  \/ StreamRecv(1)

SpecX == Init /\ [][NextX]_vars

\* The stream endpoint: the pipeline for the first task, without cancel
\* requests, and stream connections that subscribe, forward events, poll the
\* row and end on any of Stream's exit paths.
NextW ==
  \/ CreateTask(1)
  \/ EnqueueSelect(1)
  \/ EnqueueRegister(1)
  \/ \E w \in Workers : WorkerReceive(w)
  \/ \E w \in Workers : ExecuteStart(w)
  \/ \E w \in Workers : ExecuteResolve(w)
  \/ \E w \in Workers : \E exit \in ExitCodes : ExecuteFinish(w, exit)
  \/ \E w \in Workers : ProcessTaskError(w)
  \/ \E w \in Workers : ProcessTaskDefer(w)
  \/ \E p \in Procs : CallbackBroadcast(p)
  \/ \E p \in Procs : BroadcastSend(p)
  \/ \E p \in Procs : CallbackGetByID(p)
  \/ \E p \in Procs : CallbackUpdate(p)
  \/ 1 \in DOMAIN row /\ StreamSubscribe(1)
  \/ \E c \in 1..MaxSubs : StreamRecv(c)
  \/ \E c \in 1..MaxSubs : StreamWriteError(c)
  \/ \E c \in 1..MaxSubs : StreamTick(c)
  \/ \E c \in 1..MaxSubs : StreamDone(c)

SpecW == Init /\ [][NextW]_vars

\* The stream endpoint with its ticker: every 2 seconds the ticker's case is
\* ready, and the select takes a ready case sooner or later.
SpecWF == SpecW /\ \A c \in 1..MaxSubs : WF_vars(StreamTick(c))

\* The sweeper beside the pipeline: the first task without cancel requests,
\* one stream connection, the clock and cleanupLoop.
NextT ==
  \/ CreateTask(1)
  \/ EnqueueSelect(1)
  \/ EnqueueRegister(1)
  \/ \E w \in Workers : WorkerReceive(w)
  \/ \E w \in Workers : ExecuteStart(w)
  \/ \E w \in Workers : ExecuteResolve(w)
  \/ \E w \in Workers : \E exit \in ExitCodes : ExecuteFinish(w, exit)
  \/ \E w \in Workers : ProcessTaskError(w)
  \/ \E w \in Workers : ProcessTaskDefer(w)
  \/ \E p \in Procs : CallbackBroadcast(p)
  \/ \E p \in Procs : BroadcastSend(p)
  \/ \E p \in Procs : CallbackGetByID(p)
  \/ \E p \in Procs : CallbackUpdate(p)
  \/ Len(chans) < 1 /\ 1 \in DOMAIN row /\ StreamSubscribe(1)
  \/ StreamRecv(1)
  \/ Tick
  \/ Sweep

SpecT == Init /\ [][NextT]_vars

\* The sweeper beside the broadcaster alone: a worker broadcasts for either
\* task, one connection subscribes to either and reads, the clock runs and
\* cleanupLoop sweeps.
NextBT ==
  \/ \E t \in Tasks : Len(published[t]) < MaxAged /\ BroadcastCall(1, t)
  \/ BroadcastSend(1)
  \/ \E t \in Tasks : Len(chans) < 1 /\ StreamSubscribe(t)
  \/ StreamRecv(1)
  \/ Tick
  \/ Sweep

SpecBT == Init /\ [][NextBT]_vars

\* Subscriptions: a worker broadcasts for either task while goroutines
\* subscribe to either, make channels of their own, and call Unsubscribe with
\* any task and any channel.
NextU ==
  \/ \E t \in Tasks : Len(published[t]) < MaxAged /\ BroadcastCall(1, t)
  \/ BroadcastSend(1)
  \/ \E t \in Tasks : SubscribeCall(t)
  \/ MakeChannel
  \/ \E t \in Tasks : \E c \in 1..MaxChans : UnsubscribeCall(t, c)

SpecU == Init /\ [][NextU]_vars

\* The values of the keys in the texts handed to Parse; each key may also be
\* absent.
TextValues ==
  [apiVersion : {APIVersion, "xgent.ai/v2"}, kind : Kinds \cup {"Job"}, name : {"", "n"},
   personality : {"p"}, provider : {"openai"}, model_id : {"m"}, soul : {"s"}, mind : {"m"},
   members : {<<>>, <<"a">>}]

TextKeys ==
  {"apiVersion", "kind", "name", "personality", "provider", "model_id", "soul", "mind", "members"}

Texts ==
  {[yaml |-> y, typed |-> t, fields |-> [k \in P |-> v[k]]] :
     y \in BOOLEAN, t \in BOOLEAN, P \in SUBSET TextKeys, v \in TextValues}

\* The struct values of one kind handed to Marshal: any apiVersion and kind
\* strings, any values in the kind's own fields.
ValuesOf(kind) ==
  {[k \in DOMAIN NoDoc |->
      IF k = "gotype" THEN kind ELSE IF k \in KeysOf(kind) THEN v[k] ELSE Zero(k)] :
     v \in [apiVersion : {APIVersion, "", "xgent.ai/v2"}, kind : {kind, "Job", ""},
            name : {"", "n"}, description : {"", "d"}, personality : {"", "p"},
            provider : {"", "openai"}, model_id : {"", "m"}, soul : {"", "s"}, mind : {"", "m"},
            craft : {"", "tools"}, leader : {"", "lead"}, members : {<<>>, <<"a">>, <<"b", "a">>},
            mode : {"", "route"}, servers : {<<>>, <<"srv">>}]}

Values == UNION {ValuesOf(kind) : kind \in Kinds}

\* The parser: one call is followed, of Parse with a text or of Marshal with
\* a resource and Parse with what it wrote.
NextP ==
  \/ parseOut = NoParse /\ \E data \in Texts : ParseCall(data)
  \/ parseOut = NoParse /\ \E resource \in Values : MarshalCall(resource)

SpecP == Init /\ [][NextP]_vars

\* The resolver: one task for a robot or a team, run by one worker over any
\* of the resource tables, with no cancel request and no stream connection.
NextR ==
  \/ \E q \in Requests : CreateRequest(1, q[1], q[2])
  \/ EnqueueSelect(1)
  \/ EnqueueRegister(1)
  \/ \E w \in Workers : WorkerReceive(w)
  \/ \E w \in Workers : ExecuteStart(w)
  \/ \E w \in Workers : ExecuteResolve(w)
  \/ \E w \in Workers : \E line \in RunnerInputs : loc[w].nev < MaxRunEvents /\ RunnerEvent(w, line)
  \/ \E w \in Workers : \E exit \in ExitCodes : ExecuteFinish(w, exit)
  \/ \E w \in Workers : ProcessTaskError(w)
  \/ \E w \in Workers : ProcessTaskDefer(w)
  \/ \E p \in Procs : CallbackBroadcast(p)
  \/ \E p \in Procs : CallbackGetByID(p)
  \/ \E p \in Procs : CallbackUpdate(p)

SpecR == InitR /\ [][NextR]_vars

\* The resource endpoints on an empty table: clients send Create, Update and
\* Apply requests, each reading the table before it writes.
InitC == InitWith({})

NextC ==
  \/ \E c \in Clients : \E type \in ResourceTypes : \E name \in ResourceNames :
       \E spec \in RequestSpecs(name) : CreateExists(c, type, name, spec)
  \/ \E c \in Clients : CreateInsert(c)
  \/ \E c \in Clients : \E id \in 1..MaxResources : \E name \in ResourceNames :
       \E spec \in RequestSpecs(name) : UpdateGetByID(c, id, name, spec)
  \/ \E c \in Clients : UpdateSave(c)
  \/ \E c \in Clients : \E name \in ResourceNames : \E body \in RequestSpecs(name) :
       ApplyGetByName(c, body)
  \/ \E c \in Clients : ApplyWrite(c)

SpecC == InitC /\ [][NextC]_vars

(***************************************************************************)
(* Vocabulary of the properties.                                           *)
(***************************************************************************)
IsPrefix(s, t) == Len(s) <= Len(t) /\ \A i \in 1..Len(s) : s[i] = t[i]

Range(s) == {s[i] : i \in 1..Len(s)}

SeqIncreasing(s) == \A i, j \in 1..Len(s) : i < j => s[i].seq < s[j].seq

NoDuplicate(s) == \A i, j \in 1..Len(s) : i # j => s[i].seq # s[j].seq

Channels == 1..Len(chans)

\* What a connection has been handed so far: forwarded or waiting in its channel.
Observed(c) == recvd[c] \o chans[c]

\* The events a send loop still has to try on channel c.
InFlightTo(c) == {loc[p].ev : p \in {q \in Procs : pc[q] = "bsend" /\ c \in Range(loc[q].subs)}}

\* The events published to c's task after c subscribed that are neither in
\* c's hands nor still to be tried on c.
Missed(c) ==
  LET pub == published[subAt[c].task]
  IN {i \in (Len(subAt[c].before) + 1)..Len(pub) : pub[i] \notin Range(Observed(c)) \cup InFlightTo(c)}

C4_ReceivedInBufferOrder ==
  \A c \in Channels :
    LET buf == MapGet(buffers, subAt[c].task, <<>>)
    IN \A i, j \in 1..Len(recvd[c]) :
         (i < j /\ recvd[c][i] \in Range(buf) /\ recvd[c][j] \in Range(buf)) =>
           \E a, b \in 1..Len(buf) : a < b /\ buf[a] = recvd[c][i] /\ buf[b] = recvd[c][j]

\* C5: a subscriber is handed an event at most once: events published before
\* it subscribed reach it through the replay only, later ones through the
\* send loop only, and an event still to be sent to it is not in its hands yet.
C5_AtMostOnce ==
  \A c \in Channels :
    LET k == Len(subAt[c].before)
        obs == Observed(c)
    IN /\ NoDuplicate(obs)
       /\ \A i \in 1..Len(obs) :
            obs[i].seq <= k <=> (i <= Len(subAt[c].replay) /\ subAt[c].replay[i] = obs[i])
       /\ \A e \in InFlightTo(c) : e \notin Range(obs)

\* Subscribe ran between a Broadcast's critical section and its send loop:
\* the event is in the replay and the sender's snapshot lacks the channel.
C5_Witness ==
  \E c \in Channels : \E p \in Procs :
    /\ pc[p] = "bsend"
    /\ loc[p].ev \in Range(subAt[c].replay)
    /\ c \notin Range(loc[p].subs)
    /\ loc[p].ev.seq = Len(subAt[c].before)

\* C6: a send never waits. On a full channel the event is skipped for that
\* channel alone, on any other it is appended; the events a subscriber was
\* not handed are those skipped while its channel was full.
C6_NeverBlocks ==
  /\ [](\A p \in Procs : pc[p] = "bsend" => ENABLED BroadcastSend(p))
  /\ [](\A c \in Channels : Missed(c) \subseteq dropped[c])
  /\ [][\A p \in Procs :
          (pc[p] = "bsend" /\ loc'[p].subs # loc[p].subs) =>
            LET c == Head(loc[p].subs)
            IN /\ chans'[c] = IF Len(chans[c]) = subChanCap THEN chans[c]
                              ELSE Append(chans[c], loc[p].ev)
               /\ dropped'[c] = IF Len(chans[c]) = subChanCap
                                THEN dropped[c] \cup {loc[p].ev.seq} ELSE dropped[c]
               /\ \A d \in Channels \ {c} : chans'[d] = chans[d] /\ dropped'[d] = dropped[d]
               /\ recvd' = recvd]_vars

\* One subscriber was skipped for an event another one was handed, and after
\* draining it received a later event.
C6_Witness ==
  \E c, d \in Channels : \E x \in dropped[c] :
    /\ c # d
    /\ subAt[c].task = subAt[d].task
    /\ x \notin dropped[d]
    /\ published[subAt[d].task][x] \in Range(Observed(d))
    /\ \E i \in 1..Len(recvd[c]) : recvd[c][i].seq > x

C8_BufferCapped ==
  /\ [](\A t \in DOMAIN buffers :
          LET buf == buffers[t]
          IN /\ Len(buf) <= maxEventBuffer
             /\ \A i \in 1..Len(buf) :
                  /\ buf[i].seq \in 1..Len(published[t])
                  /\ buf[i] = published[t][buf[i].seq]
                  /\ i > 1 => buf[i].seq = buf[i - 1].seq + 1)
  /\ [][\A t \in DOMAIN buffers :
          (published'[t] # published[t] /\ Len(buffers[t]) = maxEventBuffer) =>
            /\ buffers'[t] = buffers[t]
            /\ \E p \in Procs :
                 /\ loc'[p].ev = published'[t][Len(published'[t])]
                 /\ loc'[p].subs = MapGet(subscribers, t, <<>>)
                 /\ pc'[p] = IF loc'[p].subs = <<>> THEN loc'[p].bret ELSE "bsend"]_vars

\* An event published to a full buffer reached a subscriber.
C8_Witness ==
  \E c \in Channels :
    /\ Len(MapGet(buffers, subAt[c].task, <<>>)) = maxEventBuffer
    /\ \E i \in 1..Len(Observed(c)) :
         /\ Observed(c)[i].seq > maxEventBuffer
         /\ Observed(c)[i] \notin Range(buffers[subAt[c].task])

(***************************************************************************)
(* Task lifecycle and queue.                                               *)
(***************************************************************************)
\* C1: the stored status of a task moves only pending -> running ->
\* {completed, failed, cancelled} or pending -> cancelled; a terminal status
\* is never replaced by another status.
C1_StatusMachine ==
  [][\A t \in DOMAIN row :
       LET a == row[t].status
           b == row'[t].status
       IN \/ a = b
          \/ a = "pending" /\ b \in {"running", "cancelled"}
          \/ a = "running" /\ b \in Terminal]_vars

\* C9: Enqueue's select never waits. With room in the channel the item is
\* appended and the id registered before Enqueue returns nil; with a full
\* channel Enqueue returns the error and leaves the channel, the active set
\* and q.mu as they were.
C9_EnqueueNonBlocking ==
  /\ [](\A t \in Tasks :
          /\ (sub[t] = "submit" /\ mu = 0) => ENABLED EnqueueSelect(t)
          /\ sub[t] = "register" => ENABLED EnqueueRegister(t)
          /\ enqRes[t] = "full" => (t \notin active /\ t \notin Queued))
  /\ [][\A t \in Tasks :
          /\ (sub[t] = "submit" /\ sub'[t] # "submit") =>
               IF Len(tasks) < taskChanCap
               THEN tasks' = Append(tasks, t) /\ sub'[t] = "register" /\ enqRes'[t] = "none"
               ELSE /\ enqRes'[t] = "full" /\ sub'[t] = "done"
                    /\ tasks' = tasks /\ active' = active /\ mu' = mu
          /\ (sub[t] = "register" /\ sub'[t] # "register") =>
               active' = active \cup {t} /\ enqRes'[t] = "ok" /\ sub'[t] = "done"]_vars

\* One Enqueue was refused on a full channel and another went through.
C9_Witness ==
  \E t, u \in Tasks : enqRes[t] = "full" /\ enqRes[u] = "ok" /\ u \in active

\* C10: Enqueue returns QueueFull exactly when QueueSize tasks are in flight,
\* queued or being executed.
C10_QueueSizeBound ==
  \A t \in Tasks :
    enqRes[t] # "none" => (enqRes[t] = "full" <=> Cardinality(inflight[t]) >= QueueSize)

(***************************************************************************)
(* Cancel, Stop, panics and the active set.                                *)
(***************************************************************************)
\* The positions of the events with status cancelled published for task t.
CancelledEvents(t) == {i \in 1..Len(published[t]) : published[t][i].status = "cancelled"}

\* C11: Cancel of an active task calls the task's callback once with status
\* cancelled while it holds q.mu and the entry is still there, deletes the
\* entry before it returns, and the entry does not come back; the cancelled
\* event that callback broadcasts has reached every channel subscribed at
\* that moment, unless the channel was full when the send was tried.
C11_CancelCallsBackThenRemoves ==
  /\ [](\A h \in Handlers :
          LET t == loc[h].item
              e == loc[h].ev
          IN /\ pc[h] \in {"cb_bcast", "bsend", "cb_read", "cb_write", "cancel_del"} =>
                  /\ mu = h
                  /\ t \in active
                  /\ loc[h].cbtask = t
                  /\ loc[h].cbstatus = "cancelled"
             /\ pc[h] = "cb_bcast" => CancelledEvents(t) = {}
             /\ pc[h] \in {"bsend", "cb_read", "cb_write", "cancel_del", "cancel_upd"} =>
                  /\ CancelledEvents(t) = {e.seq}
                  /\ published[t][e.seq] = e
             /\ pc[h] \in {"cb_read", "cb_write", "cancel_del", "cancel_upd"} =>
                  \A c \in Channels :
                    (subAt[c].task = t /\ Len(subAt[c].before) < e.seq) =>
                      (e \in Range(Observed(c)) \/ e.seq \in dropped[c])
             /\ pc[h] = "cancel_upd" => (t \notin active /\ mu # h))
  /\ [](\A t \in Tasks : Cardinality(CancelledEvents(t)) <= 1)
  /\ [][/\ \A h \in Handlers :
            (pc[h] = "cancel_lock" /\ pc'[h] # "cancel_lock") =>
              IF loc[h].item \in active
              THEN pc'[h] = "cb_bcast" /\ active' = active
              ELSE pc'[h] = "idle" /\ published' = published
        /\ \A c \in Channels : dropped'[c] # dropped[c] => Len(chans[c]) = subChanCap
        /\ \A t \in Tasks : (CancelledEvents(t) # {} /\ t \notin active) => t \notin active']_vars

\* Cancel returned for a running task: the entry is gone and the subscriber
\* of the task holds the cancelled event.
C11_Witness ==
  \E h \in Handlers :
    /\ pc[h] = "cancel_upd"
    /\ loc[h].item \notin active
    /\ \E c \in Channels :
         /\ subAt[c].task = loc[h].item
         /\ loc[h].ev \in Range(Observed(c))
         /\ loc[h].ev.status = "cancelled"

\* C12: Stop returns only after every worker has exited and the channel is
\* closed, and once it has returned no goroutine enters the callback again,
\* neither a worker nor a Cancel that finds an entry in the active set.
C12_NoCallbackAfterStop ==
  /\ [](stop = "returned" => \A w \in Workers : pc[w] = "exited")
  /\ [][stop = "returned" =>
          \A p \in Procs : pc'[p] = "cb_bcast" => pc[p] = "cb_bcast"]_vars

\* The event a recovered panic is reported with.
PanicEvents(t) == {i \in 1..Len(published[t]) : published[t][i].msg = <<"panic: ", "v">>}

C14_NoStaleActive ==
  /\ [](active \subseteq Queued \cup Executing)
  /\ [](\A t \in Tasks : sub[t] = "register" => t \in Queued \cup Executing)
  /\ [][\A w \in Workers :
          (pc[w] = "defer" /\ pc'[w] # "defer") =>
            /\ enqRes[loc[w].item] = "ok"
            /\ loc[w].item \notin active']_vars

\* The worker picked the task up at once and is at its deferred delete while
\* Enqueue, still holding q.mu, has not registered the id yet.
C14_Witness ==
  \E w \in Workers :
    /\ pc[w] = "defer"
    /\ sub[loc[w].item] = "register"
    /\ mu # 0

(***************************************************************************)
(* Executor: final fields, broadcasts and log rows of one run.             *)
(***************************************************************************)
\* Whether the run read an event of the given type.
HasType(lines, type) == \E i \in 1..Len(lines) : lines[i].json /\ lines[i].type = type

IsJSON(line) == line.json

\* The lines of the run that parsed as events, in arrival order.
JSONLines(lines) == SelectSeq(lines, IsJSON)

\* The content of the content events of the run, concatenated in arrival order.
RECURSIVE ContentOf(_)
ContentOf(lines) ==
  IF lines = <<>> THEN <<>>
  ELSE (IF Head(lines).json /\ Head(lines).type = "content" THEN Head(lines).content ELSE <<>>)
         \o ContentOf(Tail(lines))

\* The content of the last error event of the run.
LastErrorOf(lines) ==
  LET at == {i \in 1..Len(lines) : lines[i].json /\ lines[i].type = "error"}
  IN lines[CHOOSE i \in at : \A j \in at : j <= i].content

\* s occurs in m as a run of consecutive pieces.
Carries(m, s) == \E i \in 0..(Len(m) - Len(s)) : SubSeq(m, i + 1, i + Len(s)) = s

\* C15: after exit code 0 of a run without error or cancelled event the row
\* is completed with progress 100, result the concatenated content, event_logs
\* the parsed lines in arrival order, completed_at and duration set; and a
\* completed row is not written with other values afterwards.
C15_SuccessFields ==
  /\ [](\A w \in Workers :
          (/\ loc[w].returned
           /\ loc[w].exit = 0
           /\ ~HasType(loc[w].lines, "error")
           /\ ~HasType(loc[w].lines, "cancelled")) =>
            LET r == row[loc[w].item]
            IN /\ r.status = "completed"
               /\ r.progress = 100
               /\ r.result = ContentOf(loc[w].lines)
               /\ r.event_logs = JSONLines(loc[w].lines)
               /\ r.error = <<>>
               /\ r.completed_at
               /\ r.duration)
  /\ [][\A t \in DOMAIN row : row[t].status = "completed" => row'[t] = row[t]]_vars

\* A run of a raw line, two content events and a debug event has ended.
C15_Witness ==
  \E w \in Workers :
    /\ pc[w] = "defer"
    /\ loc[w].exit = 0
    /\ loc[w].lines = <<RawLine, Line("content", <<"hello">>), Line("content", <<" world">>),
                        Line("debug", <<"dbg">>)>>
    /\ row[loc[w].item].result = <<"hello", " world">>
    /\ Len(row[loc[w].item].event_logs) = 3

\* The event types runAgnoScript has no case for.
Suppressed == {"debug", "debug_event", "run_content"}

\* The output of scenario S1.
S1Script ==
  <<Line("started", <<>>), Line("content", <<"hello">>), Line("content", <<" world">>),
    Line("completed", <<>>)>>

\* What a subscriber and the log table see of an event.
Visible(etype, msg, status, progress) ==
  [etype |-> etype, msg |-> msg, status |-> status, progress |-> progress]

RECURSIVE VisibleOf(_)
VisibleOf(events) ==
  IF events = <<>> THEN <<>>
  ELSE <<Visible(Head(events).etype, Head(events).msg, Head(events).status, Head(events).progress)>>
         \o VisibleOf(Tail(events))

\* The events of the lines of a run: one per started and per content event.
RECURSIVE LineEvents(_)
LineEvents(lines) ==
  IF lines = <<>> THEN <<>>
  ELSE (IF Head(lines).json /\ Head(lines).type = "started"
        THEN <<Visible("started", <<"Agent started">>, "running", 20)>>
        ELSE IF Head(lines).json /\ Head(lines).type = "content"
        THEN <<Visible("content", Head(lines).content, "running", 50)>>
        ELSE <<>>)
         \o LineEvents(Tail(lines))

\* The events of a whole run: Execute's start, the lines', and the terminal
\* one, after a failure Execute's and then processTask's.
RunEvents(lines, err) ==
  <<Visible("info", <<"Task started">>, "running", 10)>>
    \o LineEvents(lines)
    \o (IF err = <<>> THEN <<Visible("info", <<"Task completed">>, "completed", 100)>>
        ELSE <<Visible("info", err, "failed", 0),
               Visible("info", <<"execution failed: ">> \o err, "failed", 0)>>)

RECURSIVE LogRows(_)
LogRows(events) ==
  IF events = <<>> THEN EmptyBag
  ELSE SetToBag({[event_type |-> Head(events).etype, content |-> Head(events).msg]})
         (+) LogRows(Tail(events))

\* The parsed lines of a run whose type is not suppressed.
NonSuppressed(lines) == {i \in 1..Len(lines) : lines[i].json /\ lines[i].type \notin Suppressed}

C17_RunnerErrorKeepsLogs ==
  \A w \in Workers :
    (loc[w].returned /\ loc[w].exit = 1 /\ HasType(loc[w].lines, "error")) =>
      LET r == row[loc[w].item]
      IN /\ r.status = "failed"
         /\ Carries(r.error, LastErrorOf(loc[w].lines))
         /\ r.result = <<>>
         /\ r.event_logs = JSONLines(loc[w].lines)

\* C18: a run that read an error event ends failed with an empty result and
\* the last error event's content as its error, whatever the exit code.
C18_ErrorEventFails ==
  \A w \in Workers :
    (loc[w].returned /\ HasType(loc[w].lines, "error")) =>
      LET r == row[loc[w].item]
      IN /\ r.status = "failed"
         /\ r.result = <<>>
         /\ Carries(r.error, LastErrorOf(loc[w].lines))

\* C19: a run that read a cancelled event ends with the callback called with
\* cancelled and the row cancelled.
C19_CancelledEventCancels ==
  \A w \in Workers :
    (loc[w].returned /\ HasType(loc[w].lines, "cancelled")) =>
      /\ loc[w].cbstatus = "cancelled"
      /\ row[loc[w].item].status = "cancelled"

\* The event types with a case in runAgnoScript's switch.
EventTable ==
  {"started", "content", "run_started", "team_run_started", "run_completed",
   "team_run_completed", "tool_call_started", "member_tool_started",
   "tool_call_completed", "member_tool_completed", "reasoning", "mcp_connected",
   "thinking_step", "session_reused", "git_downloaded", "warning", "completed",
   "cancelled", "error"}

\* C20: a debug, debug_event or run_content line is read without entering the
\* callback, so it adds no broadcast event and no log row; every broadcast
\* event and every log row has an event type of the switch or info.
C20_SuppressedNeverLogged ==
  /\ [](\A t \in Tasks :
          /\ \A i \in 1..Len(published[t]) :
               published[t][i].etype \in (EventTable \cup {"info"}) \ Suppressed
          /\ \A r \in BagToSet(logs[t]) :
               r.event_type \in (EventTable \cup {"info"}) \ Suppressed)
  /\ [][\A w \in Workers :
          (/\ pc[w] = "run"
           /\ Len(loc'[w].lines) = Len(loc[w].lines) + 1
           /\ loc'[w].lines[Len(loc'[w].lines)].json
           /\ loc'[w].lines[Len(loc'[w].lines)].type \in Suppressed) =>
            /\ pc'[w] = "run"
            /\ published' = published
            /\ logs' = logs
            /\ loc'[w].eventLogs = Append(loc[w].eventLogs, loc'[w].lines[Len(loc'[w].lines)])]_vars

\* A run that read one event of each suppressed type has ended with its log rows.
C20_Witness ==
  \E w \in Workers :
    /\ pc[w] = "defer"
    /\ HasType(loc[w].lines, "debug")
    /\ HasType(loc[w].lines, "debug_event")
    /\ HasType(loc[w].lines, "run_content")
    /\ BagCardinality(logs[loc[w].item]) >= 2

(***************************************************************************)
(* Resolution of references                                                *)
(***************************************************************************)
\* The soul or mind reference of a robot task that the table has no row for,
\* as resolution meets it: the robot loads, and its soul is missing, or its
\* soul loads as a Soul and its mind is missing. kind is "" otherwise.
DanglingLeaf(task) ==
  LET ws == task.workspace_id
      robotResource == GetByName(ws, task.resource_name, "Robot")
      robot == Parse(robotResource.row.spec).resource
      soulResource == GetByName(ws, robot.soul, "Soul")
      mindResource == GetByName(ws, robot.mind, "Mind")
  IN IF ~(task.resource_type \in {"bot", "robot"} /\ robotResource.err = <<>> /\ IsA(robot, "Robot"))
       THEN [kind |-> "", name |-> ""]
     ELSE IF soulResource.err # <<>> THEN [kind |-> "soul", name |-> robot.soul]
     ELSE IF IsA(Parse(soulResource.row.spec).resource, "Soul") /\ mindResource.err # <<>>
       THEN [kind |-> "mind", name |-> robot.mind]
     ELSE [kind |-> "", name |-> ""]

\* The task a worker has finished resolving or running: it is in the
\* deferred function of processTask.
Finishing(w) == pc[w] = "defer"

\* C21: a robot task whose robot names a soul or mind that has no row ends
\* failed without the runner being launched, without a content event and with
\* an empty result, and its error carries the kind and the name of the
\* missing reference.
C21_MissingReferenceNamed ==
  \A w \in Workers :
    (Finishing(w) /\ DanglingLeaf(mem[loc[w].item]).kind # "") =>
      LET t == loc[w].item
          d == DanglingLeaf(mem[t])
      IN /\ row[t].status = "failed"
         /\ ~loc[w].config.launched
         /\ \A i \in 1..Len(published[t]) : published[t][i].etype # "content"
         /\ row[t].result = <<>>
         /\ Carries(row[t].error, <<d.kind>>)
         /\ Carries(row[t].error, <<d.name>>)

\* Whether the soul or mind row of a robot task exists with a spec that
\* does not give a resource of its kind, as resolution meets it.
UnusableLeaf(task) ==
  LET ws == task.workspace_id
      robotResource == GetByName(ws, task.resource_name, "Robot")
      robot == Parse(robotResource.row.spec).resource
      soulResource == GetByName(ws, robot.soul, "Soul")
      mindResource == GetByName(ws, robot.mind, "Mind")
      soulOK == IsA(Parse(soulResource.row.spec).resource, "Soul")
  IN /\ task.resource_type \in {"bot", "robot"}
     /\ robotResource.err = <<>>
     /\ IsA(robot, "Robot")
     /\ soulResource.err = <<>>
     /\ \/ ~soulOK
        \/ soulOK /\ mindResource.err = <<>> /\ ~IsA(Parse(mindResource.row.spec).resource, "Mind")

\* C22: a robot task whose soul or mind row holds a spec that is not a Soul
\* or Mind ends without a panic: resolution returns an error, and Execute
\* records failed, the error and completed_at on the row.
C22_UnusableLeafFailsWithoutPanic ==
  \A w \in Workers :
    (Finishing(w) /\ UnusableLeaf(mem[loc[w].item])) =>
      LET t == loc[w].item
      IN /\ ~loc[w].panicked
         /\ row[t].status = "failed"
         /\ row[t].error # <<>>
         /\ row[t].completed_at

\* Robot n has a Robot row, a Soul row and a Mind row of their kinds.
CanLoad(ws, n) ==
  LET robotResource == GetByName(ws, n, "Robot")
      robot == Parse(robotResource.row.spec).resource
      soulResource == GetByName(ws, robot.soul, "Soul")
      mindResource == GetByName(ws, robot.mind, "Mind")
  IN /\ robotResource.err = <<>>
     /\ IsA(robot, "Robot")
     /\ soulResource.err = <<>>
     /\ IsA(Parse(soulResource.row.spec).resource, "Soul")
     /\ mindResource.err = <<>>
     /\ IsA(Parse(mindResource.row.spec).resource, "Mind")

\* The mind robot n names.
MindOf(ws, n) == Parse(GetByName(ws, n, "Robot").row.spec).resource.mind

\* The names of s that satisfy CanLoad, in order.
RECURSIVE Loadable(_, _)
Loadable(ws, s) ==
  IF s = <<>> THEN <<>>
  ELSE IF CanLoad(ws, Head(s)) THEN <<Head(s)>> \o Loadable(ws, Tail(s))
  ELSE Loadable(ws, Tail(s))

\* The team a team task names, when its row loads as a Team.
TeamOf(task) == Parse(GetByName(task.workspace_id, task.resource_name, "Team").row.spec).resource

IsTeamTask(task) == task.resource_type = "team" /\ IsA(TeamOf(task), "Team")

\* C23: a team task keeps the members that load, in declaration order, and
\* skips the others; it fails only when no member loads and no leader is
\* left, and otherwise runs with the leader's mind when a leader loaded and
\* with the first loaded member's mind when not.
C23_MembersSkippedNotFatal ==
  \A w \in Workers :
    (Finishing(w) /\ IsTeamTask(mem[loc[w].item])) =>
      LET task == mem[loc[w].item]
          ws == task.workspace_id
          team == TeamOf(task)
          members == Loadable(ws, team.members)
          leaderOK == team.leader # "" /\ CanLoad(ws, team.leader)
          config == loc[w].config
      IN /\ ~loc[w].panicked
         /\ IF members = <<>> /\ ~leaderOK
            THEN ~config.launched /\ row[loc[w].item].status = "failed"
            ELSE /\ config.launched
                 /\ config.members = members
                 /\ config.model = IF leaderOK THEN MindOf(ws, team.leader)
                                   ELSE MindOf(ws, members[1])

\* The craft a robot task's robot names when the table has no Craft of that
\* name (no row, or a row whose spec is not a Craft), "" otherwise.
UnusableCraft(task) ==
  LET ws == task.workspace_id
      robot == Parse(GetByName(ws, task.resource_name, "Robot").row.spec).resource
      craftResource == GetByName(ws, robot.craft, "Craft")
  IN IF /\ task.resource_type \in {"bot", "robot"}
        /\ CanLoad(ws, task.resource_name)
        /\ robot.craft # ""
        /\ (craftResource.err # <<>> \/ ~IsA(Parse(craftResource.row.spec).resource, "Craft"))
     THEN robot.craft ELSE ""

\* C24: a robot task whose robot names a craft that is missing or is not a
\* Craft ends failed with an error that identifies the craft, and the runner
\* is not launched.
C24_UnusableCraftFails ==
  \A w \in Workers :
    (Finishing(w) /\ UnusableCraft(mem[loc[w].item]) # "") =>
      LET t == loc[w].item
      IN /\ ~loc[w].config.launched
         /\ row[t].status = "failed"
         /\ Carries(row[t].error, <<"craft">>) \/ Carries(row[t].error, <<UnusableCraft(mem[t])>>)

(***************************************************************************)
(* The resource table                                                      *)
(***************************************************************************)
\* C25: no two stored resources have the same workspace, type and name.
C25_UniqueResources ==
  \A r1, r2 \in resources :
    (r1.workspace_id = r2.workspace_id /\ r1.type = r2.type /\ r1.name = r2.name) => r1 = r2

(***************************************************************************)
(* Reporting a failed run                                                  *)
(***************************************************************************)
\* The events of task t broadcast with status failed.
FailedEvents(t) == {i \in 1..Len(published[t]) : published[t][i].status = "failed"}

\* The log rows of task t whose content carries the error err.
FailedLogRows(t, err) ==
  LET rows == {r \in BagToSet(logs[t]) : Carries(r.content, err)}
  IN BagCardinality([r \in rows |-> logs[t][r]])

\* C26: when Execute has returned an error and the worker is done with it,
\* the failure was reported by one callback: one event with status failed was
\* broadcast and one log row carries the error.
C26_OneFailedCallback ==
  \A w \in Workers :
    (Finishing(w) /\ loc[w].err) =>
      LET t == loc[w].item
      IN /\ Cardinality(FailedEvents(t)) = 1
         /\ FailedLogRows(t, mem[t].error) = 1

(***************************************************************************)
(* Writers of a task row                                                   *)
(***************************************************************************)
\* C27: while a worker is processing a task, every step that changes the
\* task's row is a step of that worker.
C27_OnlyOwnerWrites ==
  [][\A t \in DOMAIN row :
       (t \in Executing /\ row'[t] # row[t]) =>
         \E w \in Workers : loc[w].item = t /\ pc'[w] # pc[w]]_vars

(***************************************************************************)
(* Stream connections                                                      *)
(***************************************************************************)
\* The connections to task t that are inside Stream's loop.
LiveConns(t) == {c \in 1..Len(conn) : conn[c].state = "live" /\ subAt[c].task = t}

\* The status on the row of task t, "none" before the row exists.
StatusOf(t) == IF t \in DOMAIN row THEN row[t].status ELSE "none"

\* C28: a connection's handler calls Unsubscribe once, when it ends, on each
\* of the exit paths, so the channels registered for a task are those of its
\* live connections; and a tick that finds the row in a terminal status sends
\* the complete frame and ends the connection, while no other tick does; with
\* the ticker running, a live connection to a task whose row stays terminal
\* is ended.
C28_UnsubscribeOnEveryExit ==
  /\ [](\A t \in Tasks :
          /\ Len(MapGet(subscribers, t, <<>>)) = Cardinality(LiveConns(t))
          /\ Range(MapGet(subscribers, t, <<>>)) = LiveConns(t))
  /\ [](\A c \in 1..Len(conn) :
          /\ conn[c].unsub = IF conn[c].state = "ended" THEN 1 ELSE 0
          /\ closed[c] = (conn[c].state = "ended")
          /\ conn[c].state = "ended" => conn[c].exit \in {"disconnect", "write", "terminal"}
          /\ conn[c].complete = (conn[c].exit = "terminal"))
  /\ [][\A c \in 1..Len(conn) :
          (conn[c].state = "live" /\ conn'[c].polls # conn[c].polls) =>
            IF row[subAt[c].task].status \in Terminal
            THEN conn'[c].state = "ended" /\ conn'[c].complete
            ELSE conn'[c] = [conn[c] EXCEPT !.polls = conn'[c].polls]]_vars
  /\ \A c \in 1..MaxSubs :
       [](c \in LiveConns(1) /\ StatusOf(1) \in Terminal =>
            <>(c \notin LiveConns(1) \/ Crashed \/ StatusOf(1) \notin Terminal))

\* Connections have ended on each of the three exit paths.
C28_Witness ==
  /\ Len(conn) = MaxSubs
  /\ \E c, d \in 1..Len(conn) :
       /\ conn[c].exit = "terminal" /\ conn[c].complete /\ conn[c].unsub = 1
       /\ conn[d].exit \in {"write", "disconnect"} /\ conn[d].unsub = 1
  /\ subscribers = EmptyMap

\* A step deletes task t's replay buffer.
BufferDeleted(t) == t \in DOMAIN buffers /\ t \notin DOMAIN buffers'

\* C29: a task's replay buffer is deleted only after the task has reached a
\* terminal status: no step deletes the buffer of a task whose row is pending
\* or running.
C29_BufferKeptUntilTerminal ==
  [][\A t \in Tasks : BufferDeleted(t) => StatusOf(t) \in Terminal]_vars

\* The age of task t's buffer.
Age(t) == now - createdAt[t]

\* C30: the sweeper runs at every multiple of 5 minutes and at no other time;
\* a sweep deletes exactly the buffers older than 10 minutes, leaves every
\* other buffer and every subscriber list as they were, and nothing else
\* deletes a buffer; a buffer's age counts from the broadcast that found no
\* buffer for the task; so a buffer is evicted at an age above 10 and of at
\* most 15 minutes.
C30_SweepEvictsByAge ==
  /\ [](swept = cleanupInterval * (now \div cleanupInterval)
        \/ (now % cleanupInterval = 0 /\ swept = now - cleanupInterval))
  /\ [][swept' # swept =>
          /\ now % 5 = 0 /\ now' = now /\ swept' = now
          /\ DOMAIN buffers' = {t \in DOMAIN buffers : Age(t) <= 10}
          /\ \A t \in DOMAIN buffers' : buffers'[t] = buffers[t] /\ createdAt'[t] = createdAt[t]
          /\ subscribers' = subscribers /\ chans' = chans /\ closed' = closed]_vars
  /\ [][swept' = swept => \A t \in Tasks : ~BufferDeleted(t)]_vars
  /\ [][\A t \in Tasks :
          /\ (t \notin DOMAIN buffers /\ t \in DOMAIN buffers') => createdAt'[t] = now
          /\ (t \in DOMAIN buffers /\ t \in DOMAIN buffers') => createdAt'[t] = createdAt[t]]_vars
  /\ [](DOMAIN createdAt = DOMAIN buffers)
  /\ [][\A t \in Tasks : BufferDeleted(t) => Age(t) > 10 /\ Age(t) <= 15]_vars
  /\ [](\A t \in DOMAIN buffers : Age(t) <= 15)

\* A sweep has just deleted the first task's buffer at the age of 15 minutes
\* and kept the younger buffer of the second task, with a connection
\* subscribed; the first task's buffer was created again afterwards.
C30_Witness ==
  /\ swept = 15 /\ now > 15
  /\ published[1] # <<>> /\ 1 \in DOMAIN buffers /\ createdAt[1] >= 15
  /\ Len(buffers[1]) < Len(published[1])
  /\ 2 \in DOMAIN buffers /\ createdAt[2] = 5
  /\ subscribers # EmptyMap

\* Task t's subscriber list.
ListOf(t) == MapGet(subscribers, t, <<>>)

\* The list s without its i-th element.
RemoveAt(s, i) == SubSeq(s, 1, i - 1) \o SubSeq(s, i + 1, Len(s))

\* The step is a call Unsubscribe(t, c).
UnsubscribeStep(t, c) ==
  /\ c \in 1..Len(conn) /\ Len(conn') = Len(conn)
  /\ conn'[c].unsub = conn[c].unsub + 1 /\ conn'[c].utask = t

\* C31: Unsubscribe(t, ch) with ch in t's list removes that one element,
\* keeping the others in order, deletes the entry when the list is left
\* empty, and closes ch; with ch not in t's list (removed before, subscribed
\* to another task, or never subscribed) it changes nothing and closes
\* nothing; either way the buffers, the channels' contents and the other
\* tasks' lists stay as they were. Nothing else takes a channel out of a list
\* or closes one, no list entry is empty, and a closed channel is in no list.
C31_UnsubscribeFrame ==
  /\ [][\A t \in Tasks : \A c \in 1..MaxChans : UnsubscribeStep(t, c) =>
          /\ IF \E i \in 1..Len(ListOf(t)) : ListOf(t)[i] = c
             THEN \E i \in 1..Len(ListOf(t)) :
                    /\ ListOf(t)[i] = c
                    /\ subscribers' = IF Len(ListOf(t)) = 1 THEN MapDel(subscribers, t)
                                      ELSE MapPut(subscribers, t, RemoveAt(ListOf(t), i))
                    /\ closed' = [closed EXCEPT ![c] = TRUE]
                    /\ ~closed[c]
             ELSE subscribers' = subscribers /\ closed' = closed
          /\ buffers' = buffers /\ createdAt' = createdAt /\ chans' = chans
          /\ \A u \in Tasks \ {t} : u \in DOMAIN subscribers <=> u \in DOMAIN subscribers'
          /\ \A u \in (DOMAIN subscribers) \ {t} : subscribers'[u] = subscribers[u]]_vars
  /\ [][(\A t \in Tasks : \A c \in 1..MaxChans : ~UnsubscribeStep(t, c)) =>
          /\ \A c \in 1..Len(closed) : closed'[c] = closed[c]
          /\ \A t \in Tasks : \A i \in 1..Len(ListOf(t)) :
               i <= Len(MapGet(subscribers', t, <<>>)) /\ subscribers'[t][i] = ListOf(t)[i]]_vars
  /\ [](\A t \in DOMAIN subscribers : subscribers[t] # <<>>)
  /\ [](\A c \in 1..Len(closed) : closed[c] => \A t \in Tasks : c \notin Range(ListOf(t)))

\* The middle one of three subscribers of the first task was unsubscribed
\* twice, and the first of them was unsubscribed from the second task: the
\* two others are still listed in order and open, and the buffer is there.
C31_Witness ==
  /\ Len(conn) = 3
  /\ subscribers = MapPut(EmptyMap, 1, <<1, 3>>)
  /\ closed = <<FALSE, TRUE, FALSE>>
  /\ conn[2].unsub = 2 /\ conn[2].utask = 1
  /\ conn[1].unsub = 1 /\ conn[1].utask = 2
  /\ 1 \in DOMAIN buffers /\ buffers[1] # <<>>

\* The value of key k in the text handed to Parse, "" or <<>> when absent.
TextField(k) == MapGet(text.fields, k, Zero(k))

\* The text lacks a field its kind requires.
MissingRequired ==
  \/ TextField("kind") = "Soul" /\ TextField("personality") = ""
  \/ TextField("kind") = "Mind" /\ (TextField("provider") = "" \/ TextField("model_id") = "")
  \/ TextField("kind") = "Robot" /\ (TextField("soul") = "" \/ TextField("mind") = "")
  \/ TextField("kind") = "Team" /\ TextField("members") = <<>>

\* Parse returned the typed resource of the text: the struct of its kind with
\* the values of the kind's keys.
ReturnedTyped ==
  /\ parseOut.err = <<>>
  /\ GetKind(parseOut.resource) = TextField("kind")
  /\ \A k \in KeysOf(TextField("kind")) : parseOut.resource[k] = TextField(k)

\* The outcomes of the four checks and success, decided in that order.
DecidedInOrder ==
  IF TextField("apiVersion") # APIVersion
    THEN parseOut.err = <<"unsupported API version: ", TextField("apiVersion")>>
  ELSE IF TextField("kind") \notin Kinds
    THEN parseOut.err = <<"unknown resource kind: ", TextField("kind")>>
  ELSE IF TextField("name") = ""
    THEN parseOut.err = <<"validation failed: ", "invalid metadata">>
  ELSE IF MissingRequired
    THEN parseOut.err = <<"validation failed: ", "invalid spec">>
  ELSE ReturnedTyped

\* Every resource Parse returns has a name, and the fields its kind requires.
ReturnedValid ==
  parseOut.err = <<>> =>
    LET r == parseOut.resource
    IN /\ GetKind(r) \in Kinds /\ r.kind = GetKind(r) /\ r.apiVersion = APIVersion
       /\ r.name # ""
       /\ GetKind(r) = "Team" => r.members # <<>>
       /\ GetKind(r) = "Robot" => r.soul # "" /\ r.mind # ""
       /\ GetKind(r) = "Soul" => r.personality # ""
       /\ GetKind(r) = "Mind" => r.provider # "" /\ r.model_id # ""

\* C32 as stated: for every text, Parse decides between unsupported API
\* version, unknown kind, invalid metadata, invalid spec and the typed
\* resource, in that order, and what it returns is valid.
C32_ParseDecidesInOrder ==
  parseOut # NoParse => DecidedInOrder /\ ReturnedValid

\* C32, amended: a text that is not YAML fails first, with a parse error;
\* then come the apiVersion and the kind; then a text whose values do not fit
\* the fields of its kind fails with a parse error naming the kind; then the
\* name, the required fields, and the typed resource. What Parse returns is
\* valid, and an error comes with no resource.
C32_ParseDecidesInOrderOfYaml ==
  parseOut # NoParse =>
    /\ IF ~text.yaml THEN parseOut.err = <<"failed to parse metadata: ", "yaml">>
       ELSE IF TextField("apiVersion") = APIVersion /\ TextField("kind") \in Kinds /\ ~text.typed
         THEN parseOut.err = <<"failed to parse ", TextField("kind"), ": ", "yaml">>
       ELSE DecidedInOrder
    /\ ReturnedValid
    /\ parseOut.err # <<>> => parseOut.resource = NoDoc

\* Parse was handed a Soul with neither name nor personality and answered
\* invalid metadata.
C32_Witness ==
  /\ res = NoDoc /\ text.yaml /\ text.typed
  /\ TextField("apiVersion") = APIVersion /\ TextField("kind") = "Soul"
  /\ TextField("name") = "" /\ MissingRequired
  /\ parseOut.err = <<"validation failed: ", "invalid metadata">>

\* A valid resource of one of the six kinds: a struct of the kind that
\* carries the apiVersion and the kind of its type and passes Validate.
ValidResource(r) ==
  /\ GetKind(r) \in Kinds
  /\ r.apiVersion = APIVersion
  /\ r.kind = GetKind(r)
  /\ Validate(r) = ""

CancelledWhileQueued(t) ==
  /\ enqRes[t] = "ok"
  /\ t \in Queued
  /\ t \notin active
  /\ \A h \in Handlers : pc[h] = "idle"

\* C34: once Cancel(t) has succeeded with t still waiting in the task
\* channel, no worker takes t into processTask, where Execute is called and
\* the callbacks with status running, completed or failed come from.
C34_CancelledQueuedTaskNeverRuns ==
  [][\A t \in Tasks : CancelledWhileQueued(t) => t \notin Executing']_vars

\* Goroutine p takes a step of Broadcast's send loop.
SendStep(p) == pc[p] = "bsend" /\ loc'[p] # loc[p]

\* C35: Broadcast never sends on a channel Unsubscribe has closed: at every
\* step of the send loop the channel taken from the snapshot is open, so the
\* send does not panic.
C35_NoSendOnClosedChannel ==
  [][\A p \in Procs : SendStep(p) => ~closed[Head(loc[p].subs)]]_vars

\* Enqueue for task t runs its select in this step.
EnqueueStep(t) == sub[t] = "submit" /\ sub'[t] # "submit"

\* C36: an Enqueue whose select runs once Stop has begun returns an error:
\* it does not panic on the closed channel, sends nothing and registers
\* nothing.
C36_EnqueueAfterStopRefused ==
  /\ [](\A t \in Tasks : enqRes[t] # "panic")
  /\ [][\A t \in Tasks : (EnqueueStep(t) /\ stop # "no") =>
          /\ sub'[t] = "done" /\ enqRes'[t] = "full"
          /\ tasks' = tasks /\ active' = active]_vars

\* A step of Subscribe: one more channel, listed for a task.
SubscribeStep == Len(chans') = Len(chans) + 1 /\ subAt'[Len(chans')].task \in Tasks

\* C37: with a buffer cap no larger than the channel capacity, Subscribe never
\* finds the new channel full: the buffer holds at most maxEventBuffer events,
\* no Broadcast in its send loop holds the new channel in its snapshot, and
\* the new channel holds every buffered event of the task in buffer order.
C37_ReplayPlacesWholeBuffer ==
  [][(SubscribeStep /\ maxEventBuffer <= subChanCap) =>
       LET c == Len(chans')
           buf == MapGet(buffers, subAt'[c].task, <<>>)
       IN /\ Len(buf) <= maxEventBuffer
          /\ \A p \in Procs : pc[p] = "bsend" => c \notin Range(loc[p].subs)
          /\ chans'[c] = buf
          /\ subAt'[c].replay = buf
          /\ Len(chans'[c]) <= subChanCap]_vars

\* A subscription made on a full buffer, after more events than it holds.
C37_Witness ==
  \E c \in Channels :
    /\ Len(subAt[c].replay) = maxEventBuffer
    /\ Len(subAt[c].before) > maxEventBuffer

\* Stream sends the complete frame on connection c and returns.
CompleteStep(c) == conn'[c].complete /\ ~conn[c].complete

\* C38: when Stream sends the complete frame, every event already in the
\* connection's channel has been forwarded: the channel is empty.
C38_CompleteAfterChannelDrained ==
  [][\A c \in Channels : CompleteStep(c) => chans[c] = <<>>]_vars

\* C39: every task row created by a submission eventually has a terminal
\* status, when workers keep running and runners exit.
C39_EveryRowReachesTerminal ==
  \A t \in Tasks : [](t \in DOMAIN row => <>(t \in DOMAIN row /\ row[t].status \in Terminal))

\* A goroutine holds q.mu.
Locked == mu # 0

\* C40: q.mu is always released again, by a return or by the unwinding of a
\* panic, so that nobody waits for it forever: a request inside Cancel comes
\* back, an Enqueue that waits for the lock goes on, and so does a worker in
\* processTask's deferred function. (The process ending on an unrecovered
\* panic leaves no goroutine waiting.)
C40_NoGoroutineBlockedForever ==
  /\ [](Locked => <>(~Locked \/ Crashed))
  /\ \A h \in Handlers : [](pc[h] # "idle" => <>(pc[h] = "idle" \/ Crashed))
  /\ \A t \in Tasks : [](sub[t] = "submit" => <>(sub[t] # "submit" \/ Crashed))
  /\ \A w \in Workers : [](pc[w] = "defer" => <>(pc[w] # "defer"))

\* Cancel holds q.mu inside Broadcast's send loop while the worker waits for
\* the lock in processTask's deferred function.
C40_Witness ==
  \E h \in Handlers : \E w \in Workers :
    /\ mu = h
    /\ pc[h] = "bsend"
    /\ pc[w] = "defer"

====
